---- MODULE Spec2Model ----
(***************************************************************************)
(* BlockchainScanner (scan / readBlockData / scanBlockData /               *)
(* accumulateDataBeforeBatchWrite / writeBlockData /                       *)
(* processAndCommitTxHints) as a state machine.                            *)
(*                                                                         *)
(* The methods are modelled one by one from the source.  Four              *)
(* specifications compose them:                                            *)
(*   Spec      scan() with the writer thread's future wired as the code    *)
(*             wires it (a by-value copy of a default-constructed          *)
(*             shared_future); the link chains of the batches are filled   *)
(*             by DeliverBlocks.                                           *)
(*   SpecScan  the parsers, accumulateDataBeforeBatchWrite, writeBlockData *)
(*             and processAndCommitTxHints run on their inputs: the link   *)
(*             chain of each batch holds the blocks of its stride and the  *)
(*             writer receives the batch groups in publication order.      *)
(*   SpecWrite as SpecScan, on the chains with few non-coinbase            *)
(*             transactions.                                               *)
(*   SpecRead  as SpecScan, the link chains being filled by the loop of    *)
(*             readBlockData as written (its promises taken as the links   *)
(*             of batch->first_).                                          *)
(***************************************************************************)
EXTENDS Integers, Sequences, FiniteSets, TLC

(* ------------------------------ bounds -------------------------------- *)
\* top height of the chain handed to scan()
MaxHeight == 2
\* number of non-coinbase transactions in the whole chain
MaxSpendTxs == 2
\* BlockchainScanner::totalThreadCount_ (config threadCount_)
totalThreadCount_ == 2
\* BlockchainScanner::nBlockFilesPerBatch_ (derived from config ramUsage_)
nBlockFilesPerBatch_ == 1
\* number of distinct 4-byte tx-hash prefixes of the model
PrefixMod == 2
\* number of non-coinbase transactions in the chains of SpecWrite
MaxWriteSpendTxs == 1

\* number of blkNNNNN.dat files the directory can hold
MaxBlkFiles == 3
\* size in bytes of a file of the directory of SpecFiles
MaxFileSize == 2
\* detectAllBlkFiles calls counted
MaxDetectCalls == 2

\* blocks per generated block file
MaxFileBlocks == 2
\* bytes of zero fill in front of a block of a generated file
MaxGap == 5
\* size of the raw block of each generated record (285: the genesis block)
RawBlockSize == 285
\* size of a serialized block header
HEADER_SIZE == 80

\* number of script addresses a wallet can register
MaxAddrs == 2

\* top height of the chains of SpecWindows and SpecThrottle
MaxWindowHeight == 5
\* BlockchainScanner::nBlocksLookAhead_
nBlocksLookAhead_ == 1

Heights == 0 .. MaxHeight
Watched == {"A"}
NoAddr == ""
NullHash == 0

(* ------------------------------ maps ---------------------------------- *)
EmptyMap == << >>

\* std::map::insert: an existing key keeps its value
MapInsert(m, k, v) == IF k \in DOMAIN m THEN m ELSE m @@ (k :> v)

\* std::map::insert(first, last)
MapInsertAll(m, n) == m @@ n

\* std::map::operator[] read of a possibly absent key
MapGet(m, k, dflt) == IF k \in DOMAIN m THEN m[k] ELSE dflt

\* KV put: the value of an existing key is replaced
MapPut(m, k, v) == (k :> v) @@ m

MapErase(m, k) == [x \in DOMAIN m \ {k} |-> m[x]]

Min(S) == CHOOSE x \in S : \A y \in S : x <= y
Max(S) == CHOOSE x \in S : \A y \in S : x >= y

RECURSIVE SortedSeq(_)
\* iteration order of a std::map with integer keys
SortedSeq(S) == IF S = {} THEN << >> ELSE <<Min(S)>> \o SortedSeq(S \ {Min(S)})

(* ------------------------------ chain --------------------------------- *)
\* Tx::getHash of the i-th transaction of the block at height h
TxHash(h, i) == 1 + h * (MaxSpendTxs + 1) + i

\* BinaryData::getSliceCopy(0, 4) of a tx hash
HashPrefix(hash) == hash % PrefixMod

\* BlockHeader::getThisHash of the header at height h
HeaderHash(h) == 100 + h

CoinbaseIn == [prevHash |-> NullHash, prevIdx |-> MaxSpendTxs + 5]

Out(a, v) == [scrAddr |-> a, value |-> v]

CoinbaseOuts == { <<Out("A", 1)>>, <<Out("U", 1), Out("A", 2)>> }
SpendOuts == { <<Out("A", 1), Out("A", 2)>>, <<Out("U", 1), Out("A", 2)>> }

\* all (tx hash, output index) of the transactions in txs
OutPoints(txs) ==
    { <<txs[i].hash, y - 1>> : i \in DOMAIN txs, y \in 1 .. 2 }
        \cap UNION { { <<txs[i].hash, y - 1>> : y \in DOMAIN txs[i].outs } : i \in DOMAIN txs }

SpentPoints(txs) ==
    UNION { { <<txs[i].ins[x].prevHash, txs[i].ins[x].prevIdx>> : x \in DOMAIN txs[i].ins }
            : i \in DOMAIN txs }

RECURSIVE FlatTxs(_)
FlatTxs(c) == IF c = << >> THEN << >> ELSE c[1].txs \o FlatTxs(Tail(c))

NumSpendTxs(c) == Len(FlatTxs(c)) - Len(c)

RECURSIVE AddSpendTxs(_, _, _, _)
\* the transaction lists that extend txs (block h on top of chain c) by at most n
\* transactions, each spending one output that is still unspent
AddSpendTxs(c, h, txs, n) ==
    {txs} \cup
    (IF n = 0 THEN {}
     ELSE LET all == FlatTxs(c) \o txs
              free == OutPoints(all) \ SpentPoints(all)
          IN UNION { AddSpendTxs(c, h,
                        Append(txs, [hash |-> TxHash(h, Len(txs)),
                                     ins |-> <<[prevHash |-> p[1], prevIdx |-> p[2]]>>,
                                     outs |-> os]),
                        n - 1)
                     : p \in free, os \in SpendOuts })

\* the blocks that can follow chain c when the whole chain may hold n non-coinbase
\* transactions
BlocksAt(c, n) ==
    LET h == Len(c)
    IN { [height |-> h, dup |-> 0, hash |-> HeaderHash(h), txs |-> txs] :
           txs \in UNION { AddSpendTxs(c, h,
                              << [hash |-> TxHash(h, 0), ins |-> <<CoinbaseIn>>, outs |-> os] >>,
                              IF h = 0 THEN 0 ELSE n - NumSpendTxs(c))
                           : os \in CoinbaseOuts } }

RECURSIVE ChainsFrom(_, _)
\* the best chains that extend c, with at most n non-coinbase transactions: block h
\* is chain[h + 1]
ChainsFrom(c, n) ==
    IF Len(c) = MaxHeight + 1 THEN {c}
    ELSE UNION { ChainsFrom(Append(c, b), n) : b \in BlocksAt(c, n) }

\* block-file number of the header at each height: all blocks in blk00000.dat, or
\* a new file every second block
Layouts == { [h \in Heights |-> 0], [h \in Heights |-> (h + 1) \div 2] }


(* ------------------------------ keys ---------------------------------- *)
\* DBUtils::getBlkDataKeyNoPrefix(height, dup, txIndex, txOutIndex)
getBlkDataKeyNoPrefix(h, d, i, y) == <<h, d, i, y>>

\* DBUtils::heightAndDupToHgtx, DBUtils::getBlkDataKeyNoPrefix(height, dup)
heightAndDupToHgtx(h, d) == <<h, d>>

\* StoredTxOut::getDBKey
StxoDBKey(stxo) ==
    getBlkDataKeyNoPrefix(stxo.blockHeight, stxo.duplicateID, stxo.txIndex, stxo.txOutIndex)

\* StoredTxOut::getDBKeyOfParentTx
StxoDBKeyOfParentTx(stxo) == <<stxo.blockHeight, stxo.duplicateID, stxo.txIndex>>

\* StoredSubHistory::getDBKey: script address || hgtx
SubSshDBKey(scrAddr, hgtx) == <<scrAddr, hgtx>>

(* ------------------------------ batches ------------------------------- *)
\* BlockDataBatch(start, end)
NewBatch(start, end) ==
    [ start_ |-> start, end_ |-> end,
      posted |-> << >>,            \* heights of the blocks on the link chain first_
      terminated |-> FALSE,        \* the terminating link is on the chain
      currentBlock |-> start,      \* readBlockData's cursor
      highestProcessedHeight_ |-> 0,
      scan |-> "txout",            \* position of the batch's scanBlockData thread
      utxos_ |-> EmptyMap, ssh_ |-> EmptyMap, spentTxOuts_ |-> << >> ]

\* key under which txoutParser files a StoredTxOut in utxos_[txHash]
UtxoMapKey(txIndex, txOutIndex) == txIndex

RECURSIVE txoutLoop(_, _, _, _)
\* txoutParser's loops from transaction i, output y on (0-based as in the code)
txoutLoop(batch, blk, i, y) ==
    IF i >= Len(blk.txs) THEN batch
    ELSE IF y >= Len(blk.txs[i + 1].outs) THEN txoutLoop(batch, blk, i + 1, 0)
    ELSE LET txn == blk.txs[i + 1]
             txout == txn.outs[y + 1]
             scrAddr == txout.scrAddr
         IN IF scrAddr \notin Watched THEN txoutLoop(batch, blk, i, y + 1)
            ELSE LET stxo == [ parentHash |-> txn.hash,
                               blockHeight |-> blk.height,
                               duplicateID |-> blk.dup,
                               txIndex |-> i, txOutIndex |-> y,
                               scrAddr |-> scrAddr, value |-> txout.value,
                               spentness |-> "UNSPENT", spentByTxInKey |-> << >> ]
                     hgtx == heightAndDupToHgtx(blk.height, blk.dup)
                     txioKey == getBlkDataKeyNoPrefix(blk.height, blk.dup, i, y)
                     stxoHashMap == MapGet(batch.utxos_, txn.hash, EmptyMap)
                     sshKey == SubSshDBKey(scrAddr, hgtx)
                     subssh == MapGet(batch.ssh_, sshKey, EmptyMap)
                     txio == [value |-> txout.value, txOut |-> txioKey, txIn |-> << >>]
                 IN txoutLoop(
                       [batch EXCEPT
                          !.utxos_ = MapPut(@, txn.hash,
                                            MapInsert(stxoHashMap, UtxoMapKey(i, y), stxo)),
                          !.ssh_ = MapPut(@, sshKey, MapInsert(subssh, txioKey, txio))],
                       blk, i, y + 1)

\* scanBlockData::txoutParser on one block
txoutParser(batch, blk) ==
    txoutLoop([batch EXCEPT !.highestProcessedHeight_ = blk.height], blk, 0, 0)

\* a StoredTxOut after batch->spentTxOuts_.push_back(move(stxo)): the members a
\* move constructor empties (scrAddr_, dataCopy_) or, without one, the copy
MovedFromOutcomes == {"intact", "emptied"}
MovedFrom(stxo, mv) ==
    IF mv = "intact" THEN stxo ELSE [stxo EXCEPT !.scrAddr = NoAddr, !.value = 0]

RECURSIVE txinLoop(_, _, _, _, _, _)
\* txinParser's loops from transaction i, input y on
txinLoop(batch, blk, utxoMap, mv, i, y) ==
    IF i >= Len(blk.txs) THEN batch
    ELSE IF y >= Len(blk.txs[i + 1].ins) THEN txinLoop(batch, blk, utxoMap, mv, i + 1, 0)
    ELSE LET txin == blk.txs[i + 1].ins[y + 1]
             outHash == txin.prevHash
             txOutId == txin.prevIdx
         IN IF outHash \notin DOMAIN utxoMap
               THEN txinLoop(batch, blk, utxoMap, mv, i, y + 1)
            ELSE IF txOutId \notin DOMAIN utxoMap[outHash]
               THEN txinLoop(batch, blk, utxoMap, mv, i, y + 1)
            ELSE LET hgtx == heightAndDupToHgtx(blk.height, blk.dup)
                     txinkey == getBlkDataKeyNoPrefix(blk.height, blk.dup, i, y)
                     stxo == [utxoMap[outHash][txOutId] EXCEPT
                                 !.spentness = "SPENT", !.spentByTxInKey = txinkey]
                     left == MovedFrom(stxo, mv)
                     sshKey == SubSshDBKey(left.scrAddr, hgtx)
                     subssh == MapGet(batch.ssh_, sshKey, EmptyMap)
                     txio == [value |-> left.value, txOut |-> StxoDBKey(left),
                              txIn |-> txinkey]
                 IN txinLoop(
                       [batch EXCEPT
                          !.spentTxOuts_ = Append(@, stxo),
                          !.ssh_ = MapPut(@, sshKey, MapInsert(subssh, txinkey, txio))],
                       blk, utxoMap, mv, i, y + 1)

\* scanBlockData::txinParser on one block
txinParser(batch, blk, utxoMap, mv) == txinLoop(batch, blk, utxoMap, mv, 0, 0)

RECURSIVE txoutPass(_, _, _)
\* blockDataLoop(txoutParser) over the blocks of the link chain, from link k on
txoutPass(batch, c, k) ==
    IF k > Len(batch.posted) THEN batch
    ELSE txoutPass(txoutParser(batch, c[batch.posted[k] + 1]), c, k + 1)

RECURSIVE txinPass(_, _, _, _, _)
\* blockDataLoop(txinParser)
txinPass(batch, c, utxoMap, mv, k) ==
    IF k > Len(batch.posted) THEN batch
    ELSE txinPass(txinParser(batch, c[batch.posted[k] + 1], utxoMap, mv), c, utxoMap, mv, k + 1)

RECURSIVE MergeUtxos(_, _, _)
\* scan(): utxoMap_.insert(batch->utxos_.begin(), batch->utxos_.end()) for each batch
MergeUtxos(utxoMap, bv, k) ==
    IF k > Len(bv) THEN utxoMap
    ELSE MergeUtxos(MapInsertAll(utxoMap, bv[k].utxos_), bv, k + 1)

RECURSIVE AllSpent(_, _)
AllSpent(bv, k) == IF k > Len(bv) THEN << >> ELSE bv[k].spentTxOuts_ \o AllSpent(bv, k + 1)

RECURSIVE PruneSpent(_, _, _)
\* accumulateDataBeforeBatchWrite: prune spent txouts from utxoMap_
PruneSpent(utxoMap, spent, k) ==
    IF k > Len(spent) THEN utxoMap
    ELSE LET s == spent[k]
         IN IF s.parentHash \notin DOMAIN utxoMap THEN PruneSpent(utxoMap, spent, k + 1)
            ELSE IF s.txOutIndex \notin DOMAIN utxoMap[s.parentHash]
               THEN PruneSpent(utxoMap, spent, k + 1)
            ELSE LET inner == MapErase(utxoMap[s.parentHash], s.txOutIndex)
                 IN PruneSpent(IF DOMAIN inner = {} THEN MapErase(utxoMap, s.parentHash)
                               ELSE MapPut(utxoMap, s.parentHash, inner),
                               spent, k + 1)

\* accumulateDataBeforeBatchWrite: the height whose header hash becomes
\* topScannedBlockHash_
TopScannedBlockHeight(bv) == Max({0} \cup { bv[k].end_ : k \in DOMAIN bv })


(* ------------------------------ writer -------------------------------- *)
\* StoredTxOut::serializeDBValue: the record as stored under its key
StxoDBValue(stxo) ==
    [ parentHash |-> stxo.parentHash, txOutIndex |-> stxo.txOutIndex,
      scrAddr |-> stxo.scrAddr, value |-> stxo.value,
      spentness |-> stxo.spentness, spentByTxInKey |-> stxo.spentByTxInKey ]

\* the StoredTxOuts of a batch's utxos_
UtxosOf(batch) ==
    UNION { { batch.utxos_[t][i] : i \in DOMAIN batch.utxos_[t] } : t \in DOMAIN batch.utxos_ }

RECURSIVE SerializeSubSSH(_, _, _)
\* writeBlockData: serializedSubSSH[subssh.getDBKey()] receives each sub-history
SerializeSubSSH(acc, bv, k) ==
    IF k > Len(bv) THEN acc
    ELSE LET ssh == bv[k].ssh_
         IN SerializeSubSSH(
               [key \in DOMAIN acc \cup DOMAIN ssh |->
                   MapGet(acc, key, << >>)
                       \o (IF key \in DOMAIN ssh THEN <<ssh[key]>> ELSE << >>)],
               bv, k + 1)

RECURSIVE SerializeUtxos(_, _, _)
\* writeBlockData: serializedStxo[utxo.getDBKey()] receives each utxo of utxos_
SerializeUtxos(acc, bv, k) ==
    IF k > Len(bv) THEN acc
    ELSE LET us == UtxosOf(bv[k])
             keys == { StxoDBKey(u) : u \in us }
         IN SerializeUtxos(
               [key \in DOMAIN acc \cup keys |->
                   MapGet(acc, key, << >>)
                       \o (IF key \in keys
                             THEN <<StxoDBValue(CHOOSE u \in us : StxoDBKey(u) = key)>>
                             ELSE << >>)],
               bv, k + 1)

RECURSIVE SerializeSpent(_, _, _)
\* writeBlockData: the second pass, spent txouts overwrite (bw.reset()) the utxos
SerializeSpent(acc, spent, k) ==
    IF k > Len(spent) THEN acc
    ELSE SerializeSpent(MapPut(acc, StxoDBKey(spent[k]), <<StxoDBValue(spent[k])>>),
                        spent, k + 1)

serializedStxoOf(bv) == SerializeSpent(SerializeUtxos(EmptyMap, bv, 1), AllSpent(bv, 1), 1)

serializedSubSSHOf(bv) == SerializeSubSSH(EmptyMap, bv, 1)

\* db_->putValue over a serialized map, committed with its transaction
PutAll(db, serialized) == serialized @@ db

(* ------------------------------ tx hints ------------------------------ *)
EmptyHints == [dbKeyList_ |-> << >>, preferredDBKey_ |-> << >>]

\* LMDBBlockDatabase::getStoredTxHints(stxh, prefix): the stored hints replace stxh
getStoredTxHints(db, stxh, prefix) == IF prefix \in DOMAIN db THEN db[prefix] ELSE stxh

RECURSIVE PushParentKeys(_, _, _, _)
\* for (auto& utxo : utxomap.second) stxh.dbKeyList_.push_back(getDBKeyOfParentTx())
PushParentKeys(list, inner, ids, k) ==
    IF k > Len(ids) THEN list
    ELSE PushParentKeys(Append(list, StxoDBKeyOfParentTx(inner[ids[k]])), inner, ids, k + 1)

RECURSIVE HintsOfUtxos(_, _, _, _, _)
\* processAndCommitTxHints: the loop over one batch's utxos_, in key order
HintsOfUtxos(txHints, db, utxos, hashes, k) ==
    IF k > Len(hashes) THEN txHints
    ELSE LET txHashPrefix == HashPrefix(hashes[k])
             inner == utxos[hashes[k]]
             read == getStoredTxHints(db, MapGet(txHints, txHashPrefix, EmptyHints),
                                      txHashPrefix)
             list == PushParentKeys(read.dbKeyList_, inner, SortedSeq(DOMAIN inner), 1)
             stxh == [dbKeyList_ |-> list, preferredDBKey_ |-> list[1]]
         IN HintsOfUtxos(MapPut(txHints, txHashPrefix, stxh), db, utxos, hashes, k + 1)

RECURSIVE HintsOfBatches(_, _, _, _)
HintsOfBatches(txHints, db, bv, k) ==
    IF k > Len(bv) THEN txHints
    ELSE HintsOfBatches(
            HintsOfUtxos(txHints, db, bv[k].utxos_, SortedSeq(DOMAIN bv[k].utxos_), 1),
            db, bv, k + 1)

\* processAndCommitTxHints: the TXHINTS sub-db after its write transaction
processAndCommitTxHints(db, bv) == PutAll(db, HintsOfBatches(EmptyMap, db, bv, 1))


(* ------------------------------ state --------------------------------- *)
VARIABLES
    chain,                 \* blockchain_: the best chain, block h at chain[h + 1]
    layout,                \* BlockHeader::getBlockFileNum of each height
    scanFrom,              \* scan()'s argument
    proc,                  \* "running", "aborted" (std::terminate) or "killed"
    dpc,                   \* position of the thread that runs scan()
    startHeight, endHeight,
    batchVec,              \* the BlockDataBatch of each thread of the current window
    utxoMap_,
    topScannedBlockHash_,
    links,                 \* the BatchLinks set on the promises of scan()'s loop, in order
    sentinel,              \* the terminating promise holds nullptr
    wpc,                   \* position of the writeBlockData thread
    batchFuture,           \* the future the writer waits on: {} (no shared state) or {k}, the k-th promise
    batchLink,             \* the BatchLink the writer is writing
    serializedStxo, serializedSubSSH,
    hpc,                   \* position of the processAndCommitTxHints thread
    dbSTXO, dbHISTORY, sdbiTopBlkHash, dbTXHINTS,
    committed              \* per committed HISTORY transaction, the heights its BatchLink scanned

\* BlockDataManager::BitcoinQtBlockFiles and the BlockDataManager that owns it
VARIABLES
    disk,                  \* the block directory: disk[n + 1] is blkNNNNN.dat of number n
    blkFiles_,
    totalBlockchainBytes_,
    detectCalls,           \* number of detectAllBlkFiles calls so far, up to MaxDetectCalls
    allHeaders,            \* Blockchain::allHeaders(): the hashes in the header store
    topHash,               \* Blockchain::top().getThisHash()
    delivered,             \* the callback invocations of the last read, in order
    returned               \* what the last operation returned, or how it ended

blockFileVars == <<disk, blkFiles_, totalBlockchainBytes_, detectCalls, allHeaders, topHash,
                   delivered, returned>>

NoResult == [op |-> "none"]
\* an empty BinaryData in the place of a block hash
NoHash == <<"hash256", << >> >>

\* a BitcoinQtBlockFiles just constructed over the directory d
BlockFilesOver(d, known, top) ==
    /\ disk = d
    /\ blkFiles_ = << >>
    /\ totalBlockchainBytes_ = 0
    /\ detectCalls = 0
    /\ allHeaders = known
    /\ topHash = top
    /\ delivered = << >>
    /\ returned = NoResult

\* BlockDataManager: its state, the place of doInitialSyncOnLoad*, the ScrAddrFilter
VARIABLES
    BDMstate_,
    bdmpc,                 \* position in doInitialSyncOnLoad* / resetDatabases / loadDiskState
    resetMode,             \* the ResetDBMode of the running resetDatabases, "none" without one
    scrAddrMap_,           \* scrAddrData_: the addresses of the filter in memory
    dbScrAddrs,            \* the address records of the filter in the database
    subDbs,                \* the sub-databases that hold data
    addrsBefore            \* the addresses of the filter when resetDatabases was entered

bdmVars == <<BDMstate_, bdmpc, resetMode, scrAddrMap_, dbScrAddrs, subDbs, addrsBefore>>

SubDbNames == {"HEADERS", "HISTORY", "SSH", "STXO", "TXHINTS"}

\* a BlockDataManager just constructed, mem registered in the filter and db stored
BdmOffline(mem, db) ==
    /\ BDMstate_ = "BDM_offline"
    /\ bdmpc = "idle"
    /\ resetMode = "none"
    /\ scrAddrMap_ = mem
    /\ dbScrAddrs = db
    /\ subDbs = SubDbNames
    /\ addrsBefore = {}

\* scan() and scanBlockData: what orders the two passes of the scan threads of a window
VARIABLES
    flagged,               \* the batches whose doneScanningUtxos_ holds the future of the promise
    waitIndex,             \* i of the loop of scan() that waits on the flags, 0 outside a window
    lockVec                \* the batches whose mu_ is held by lockVec

\* scanBlockData: the number of links blockDataLoop(txoutParser) has passed to its
\* callback, per batch of the window
VARIABLE scanned

\* the heights whose raw block made BlockData::deserialize throw in a reader thread
VARIABLE deserError

\* the heights the best chain has lost since scan() copied the top block (line 75)
VARIABLE chainMove

\* BlockHeader::blockFileNum_ / blockFileOffset_ of the headers of the store whose
\* position was set: hash |-> (file number, offset)
VARIABLE stamped

barrierVars == <<flagged, waitIndex, lockVec, scanned, deserError, chainMove, stamped>>

\* no window open
BarrierIdle ==
    /\ flagged = {}
    /\ waitIndex = 0
    /\ lockVec = {}
    /\ scanned = [i \in 1 .. totalThreadCount_ |-> 0]
    /\ deserError = {}
    /\ chainMove = {}
    /\ stamped = << >>

inputVars == <<chain, layout, scanFrom, blockFileVars, bdmVars, barrierVars>>
driverVars == <<dpc, startHeight, endHeight, batchVec, utxoMap_, topScannedBlockHash_,
                links, sentinel>>
writerVars == <<wpc, batchFuture, batchLink, serializedStxo, serializedSubSSH, hpc, committed>>
dbVars == <<dbSTXO, dbHISTORY, sdbiTopBlkHash, dbTXHINTS>>
vars == <<inputVars, proc, driverVars, writerVars, dbVars>>
\* the variables of the BlockchainScanner
scannerVars == <<chain, layout, scanFrom, proc, driverVars, writerVars, dbVars, barrierVars>>
\* what the methods of the block files leave alone
scanVars == <<scannerVars, bdmVars>>

\* blockchain_->top().getBlockHeight()
TopHeight == Len(chain) - 1

NoLink == [batchVec_ |-> << >>, topScannedBlockHash_ |-> NullHash]

\* the state when scan() is called on a freshly built database
ScanInitWith(chains, layouts, froms) ==
    /\ chain \in chains
    /\ layout \in layouts
    /\ scanFrom \in froms
    /\ proc = "running"
    /\ dpc = "start"
    /\ startHeight = 0
    /\ endHeight = 0
    /\ batchVec = << >>
    /\ utxoMap_ = EmptyMap
    /\ topScannedBlockHash_ = NullHash
    /\ links = << >>
    /\ sentinel = FALSE
    /\ wpc = "none"
    /\ batchFuture = {}
    /\ batchLink = NoLink
    /\ serializedStxo = EmptyMap
    /\ serializedSubSSH = EmptyMap
    /\ hpc = "none"
    /\ dbSTXO = EmptyMap
    /\ dbHISTORY = EmptyMap
    /\ sdbiTopBlkHash = NullHash
    /\ dbTXHINTS = EmptyMap
    /\ committed = << >>
    /\ BarrierIdle

\* the same, the block files not in use
InitWith(chains, layouts, froms) ==
    /\ ScanInitWith(chains, layouts, froms)
    /\ BlockFilesOver(<< >>, {}, NoHash)
    /\ BdmOffline({}, {})

(* ------------------------------ scan() -------------------------------- *)
\* scan(): sanity check, then the write thread is started on batchLinkFuture.
\* wiring "code": thread() copies the default-constructed future (lines 98-99);
\* wiring "linked": the writer waits on the first promise of the loop.
DriverStart(wiring) ==
    /\ proc = "running"
    /\ dpc = "start"
    /\ IF TopHeight < scanFrom
         THEN /\ dpc' = "returned"
              /\ UNCHANGED <<startHeight, wpc, batchFuture>>
         ELSE /\ dpc' = "loop"
              /\ startHeight' = scanFrom
              /\ wpc' = "get"
              /\ batchFuture' = IF wiring = "code" THEN {} ELSE {1}
    /\ endHeight' = 0
    /\ UNCHANGED <<inputVars, proc, batchVec, utxoMap_, topScannedBlockHash_, links, sentinel,
                   batchLink, serializedStxo, serializedSubSSH, hpc, committed, dbVars>>

\* Blockchain::getHeaderByHeight(h) returns a header: it throws range_error otherwise
HasHeader(h) == h <= TopHeight /\ h \notin chainMove

RECURSIVE TargetWalk(_, _)
\* while (currentHeader->getBlockFileNum() < targetBlkFileNum)
\*    currentHeader = &getHeaderByHeight(++targetHeight);
TargetWalk(targetHeight, targetBlkFileNum) ==
    IF layout[targetHeight] < targetBlkFileNum
      THEN IF ~HasHeader(targetHeight + 1)
             THEN [thrown |-> TRUE, targetHeight |-> targetHeight + 1]
             ELSE TargetWalk(targetHeight + 1, targetBlkFileNum)
      ELSE [thrown |-> FALSE, targetHeight |-> targetHeight]

\* scan() lines 111-133: the end height of the batch, or "rethrow"
BatchTargetHeight(start) ==
    LET walk == IF ~HasHeader(start) THEN [thrown |-> TRUE, targetHeight |-> 0]
                ELSE TargetWalk(start, layout[start] + nBlockFilesPerBatch_)
    IN IF ~walk.thrown THEN walk.targetHeight
       ELSE IF walk.targetHeight < TopHeight THEN -1
       ELSE TopHeight

\* scan() line 198
NextStartHeight(start, end) == start + end + 1

\* scan() lines 104-159: a pass of the loop up to the start of the threads
DriverBeginBatch ==
    /\ proc = "running"
    /\ dpc = "loop"
    /\ startHeight <= TopHeight
    /\ LET target == BatchTargetHeight(startHeight)
       IN IF target < 0
            THEN /\ dpc' = "terminate"
                 /\ UNCHANGED <<endHeight, batchVec>>
            ELSE /\ dpc' = "waitUtxos"
                 /\ endHeight' = target
                 /\ batchVec' = [i \in 1 .. totalThreadCount_ |->
                                    NewBatch(startHeight + (i - 1), target)]
    /\ UNCHANGED <<inputVars, proc, startHeight, utxoMap_, topScannedBlockHash_, links,
                   sentinel, writerVars, dbVars>>

\* the heights readBlockData is meant to put on the link chain of a batch
StrideHeights(start, end) ==
    SortedSeq({ h \in start .. end : (h - start) % totalThreadCount_ = 0 })

\* the link chain of every batch of the window holds the blocks of its stride and
\* the terminating link
DeliverBlocks ==
    /\ proc = "running"
    /\ dpc = "waitUtxos"
    /\ \E i \in DOMAIN batchVec : ~batchVec[i].terminated
    /\ batchVec' = [i \in DOMAIN batchVec |->
                       [batchVec[i] EXCEPT
                           !.posted = StrideHeights(batchVec[i].start_, batchVec[i].end_),
                           !.terminated = TRUE]]
    /\ UNCHANGED <<inputVars, proc, dpc, startHeight, endHeight, utxoMap_,
                   topScannedBlockHash_, links, sentinel, writerVars, dbVars>>

\* readBlockData: one pass of its loop, or the termination block
ReaderStep(i) ==
    /\ proc = "running"
    /\ dpc = "waitUtxos"
    /\ i \in DOMAIN batchVec
    /\ ~batchVec[i].terminated
    /\ LET b == batchVec[i]
       IN IF b.currentBlock >= b.end_
            THEN \* lines 229-233: readThreadCV_.wait(lock) while the condition holds
                 /\ ~(b.highestProcessedHeight_ > nBlocksLookAhead_ * totalThreadCount_)
                 /\ IF b.currentBlock > TopHeight
                      THEN \* getHeaderByHeight throws in a detached thread
                           /\ proc' = "aborted"
                           /\ UNCHANGED batchVec
                      ELSE /\ batchVec' = [batchVec EXCEPT
                                             ![i].posted = Append(@, b.currentBlock),
                                             ![i].currentBlock = @ + totalThreadCount_]
                           /\ UNCHANGED proc
            ELSE /\ batchVec' = [batchVec EXCEPT ![i].terminated = TRUE]
                 /\ UNCHANGED proc
    /\ UNCHANGED <<inputVars, dpc, startHeight, endHeight, utxoMap_, topScannedBlockHash_,
                   links, sentinel, writerVars, dbVars>>

\* scanBlockData: blockDataLoop(txoutParser), then the future flag is set
ScanTxOuts(i) ==
    /\ proc = "running"
    /\ dpc = "waitUtxos"
    /\ i \in DOMAIN batchVec
    /\ batchVec[i].terminated
    /\ batchVec[i].scan = "txout"
    /\ batchVec' = [batchVec EXCEPT
                       ![i] = [txoutPass(batchVec[i], chain, 1) EXCEPT !.scan = "mutex"]]
    /\ UNCHANGED <<inputVars, proc, dpc, startHeight, endHeight, utxoMap_,
                   topScannedBlockHash_, links, sentinel, writerVars, dbVars>>

\* scan() lines 161-175: every flag is set; utxoMap_ is updated, the mutexes released
DriverMergeUtxos ==
    /\ proc = "running"
    /\ dpc = "waitUtxos"
    /\ \A i \in DOMAIN batchVec : batchVec[i].scan = "mutex"
    /\ utxoMap_' = MergeUtxos(utxoMap_, batchVec, 1)
    /\ dpc' = "waitTxins"
    /\ UNCHANGED <<inputVars, proc, startHeight, endHeight, batchVec, topScannedBlockHash_,
                   links, sentinel, writerVars, dbVars>>

\* scanBlockData: the mutex is taken, then blockDataLoop(txinParser)
ScanTxIns(i) ==
    /\ proc = "running"
    /\ dpc = "waitTxins"
    /\ i \in DOMAIN batchVec
    /\ batchVec[i].scan = "mutex"
    /\ \E mv \in MovedFromOutcomes :
          batchVec' = [batchVec EXCEPT
                          ![i] = [txinPass(batchVec[i], chain, utxoMap_, mv, 1)
                                     EXCEPT !.scan = "done"]]
    /\ UNCHANGED <<inputVars, proc, dpc, startHeight, endHeight, utxoMap_,
                   topScannedBlockHash_, links, sentinel, writerVars, dbVars>>

\* scan() lines 177-198: the scan threads are joined, accumulateDataBeforeBatchWrite,
\* the BatchLink is set on the promise, startHeight is incremented
DriverPushBatch ==
    /\ proc = "running"
    /\ dpc = "waitTxins"
    /\ \A i \in DOMAIN batchVec : batchVec[i].scan = "done"
    /\ LET hash == chain[TopScannedBlockHeight(batchVec) + 1].hash
       IN /\ utxoMap_' = PruneSpent(utxoMap_, AllSpent(batchVec, 1), 1)
          /\ topScannedBlockHash_' = hash
          /\ links' = Append(links, [batchVec_ |-> batchVec, topScannedBlockHash_ |-> hash])
    /\ startHeight' = NextStartHeight(startHeight, endHeight)
    /\ batchVec' = << >>
    /\ dpc' = "loop"
    /\ UNCHANGED <<inputVars, proc, endHeight, sentinel, writerVars, dbVars>>

\* scan() lines 208-211: the loop is over, nullptr is set on a new promise
DriverTerminate ==
    /\ proc = "running"
    /\ IF dpc = "loop" THEN startHeight > TopHeight ELSE dpc = "terminate"
    /\ sentinel' = TRUE
    /\ dpc' = "join"
    /\ UNCHANGED <<inputVars, proc, startHeight, endHeight, batchVec, utxoMap_,
                   topScannedBlockHash_, links, writerVars, dbVars>>

\* scan() lines 213-214: writeThreadID.join()
DriverJoin ==
    /\ proc = "running"
    /\ dpc = "join"
    /\ wpc = "exited"
    /\ dpc' = "returned"
    /\ UNCHANGED <<inputVars, proc, startHeight, endHeight, batchVec, utxoMap_,
                   topScannedBlockHash_, links, sentinel, writerVars, dbVars>>


(* --------------------------- writeBlockData --------------------------- *)
\* a writer that keeps the future it has just consumed
SameFuture(wiring, f) == f

\* the future the writer holds after batchFuture = batchLink->next_
NextFuture(wiring, f) == IF wiring = "code" THEN {} ELSE {k + 1 : k \in f}

\* the number of the promise a future with shared state refers to
PromiseOf(f) == CHOOSE k \in f : TRUE

\* batchFuture.get() on a future with a shared state: the k-th promise of scan()
WriterGet ==
    /\ proc = "running"
    /\ wpc = "get"
    /\ batchFuture # {}
    /\ IF PromiseOf(batchFuture) <= Len(links)
         THEN /\ batchLink' = links[PromiseOf(batchFuture)]
              /\ wpc' = "serialize"
         ELSE /\ sentinel
              /\ batchLink' = NoLink
              /\ wpc' = "exited"
    /\ UNCHANGED <<inputVars, proc, driverVars, batchFuture, serializedStxo,
                   serializedSubSSH, hpc, committed, dbVars>>

\* batchFuture.get() on a future without shared state is undefined: future_error
\* leaves the thread (std::terminate), or the thread never returns from get()
WriterGetInvalid ==
    /\ proc = "running"
    /\ wpc = "get"
    /\ batchFuture = {}
    /\ \/ proc' = "aborted" /\ UNCHANGED wpc
       \/ wpc' = "hung" /\ UNCHANGED proc
    /\ UNCHANGED <<inputVars, driverVars, batchFuture, batchLink, serializedStxo,
                   serializedSubSSH, hpc, committed, dbVars>>

\* writeBlockData lines 497-560: the txhint thread is started, the data serialized
WriterSerialize ==
    /\ proc = "running"
    /\ wpc = "serialize"
    /\ hpc' = "run"
    /\ serializedSubSSH' = serializedSubSSHOf(batchLink.batchVec_)
    /\ serializedStxo' = serializedStxoOf(batchLink.batchVec_)
    /\ wpc' = "stxo"
    /\ UNCHANGED <<inputVars, proc, driverVars, batchFuture, batchLink, committed, dbVars>>

\* a writer that commits the sub-histories with the txouts, before the SDBI
WriterPutStxoWithSubSSH ==
    /\ proc = "running"
    /\ wpc = "stxo"
    /\ dbSTXO' = PutAll(dbSTXO, serializedStxo)
    /\ dbHISTORY' = PutAll(dbHISTORY, serializedSubSSH)
    /\ wpc' = "history"
    /\ UNCHANGED <<inputVars, proc, driverVars, batchFuture, batchLink, serializedStxo,
                   serializedSubSSH, hpc, committed, sdbiTopBlkHash, dbTXHINTS>>

\* writeBlockData lines 563-574: the STXO transaction
WriterPutStxo ==
    /\ proc = "running"
    /\ wpc = "stxo"
    /\ dbSTXO' = PutAll(dbSTXO, serializedStxo)
    /\ wpc' = "history"
    /\ UNCHANGED <<inputVars, proc, driverVars, batchFuture, batchLink, serializedStxo,
                   serializedSubSSH, hpc, committed, dbHISTORY, sdbiTopBlkHash, dbTXHINTS>>

\* the heights of the blocks the batches of a BatchLink were given
HeightsOf(link) ==
    UNION { { link.batchVec_[k].posted[x] : x \in DOMAIN link.batchVec_[k].posted }
            : k \in DOMAIN link.batchVec_ }

\* the SDBI written by the HISTORY transaction
SdbiAfterHistory(old, link) == link.topScannedBlockHash_

\* writeBlockData lines 576-595: the HISTORY transaction, sub-histories and SDBI
WriterPutHistory ==
    /\ proc = "running"
    /\ wpc = "history"
    /\ dbHISTORY' = PutAll(dbHISTORY, serializedSubSSH)
    /\ sdbiTopBlkHash' = SdbiAfterHistory(sdbiTopBlkHash, batchLink)
    /\ committed' = Append(committed, HeightsOf(batchLink))
    /\ wpc' = "join"
    /\ UNCHANGED <<inputVars, proc, driverVars, batchFuture, batchLink, serializedStxo,
                   serializedSubSSH, hpc, dbSTXO, dbTXHINTS>>

\* the thread started at line 498: processAndCommitTxHints(batchLink->batchVec_)
HintsThread ==
    /\ proc = "running"
    /\ hpc = "run"
    /\ dbTXHINTS' = processAndCommitTxHints(dbTXHINTS, batchLink.batchVec_)
    /\ hpc' = "done"
    /\ UNCHANGED <<inputVars, proc, driverVars, wpc, batchFuture, batchLink, serializedStxo,
                   serializedSubSSH, committed, dbSTXO, dbHISTORY, sdbiTopBlkHash>>

\* writeBlockData lines 597-601: the txhint thread is joined, the next link taken
WriterJoin(wiring) ==
    /\ proc = "running"
    /\ wpc = "join"
    /\ hpc = "done"
    /\ batchFuture' = NextFuture(wiring, batchFuture)
    /\ batchLink' = NoLink
    /\ serializedStxo' = EmptyMap
    /\ serializedSubSSH' = EmptyMap
    /\ hpc' = "none"
    /\ wpc' = "get"
    /\ UNCHANGED <<inputVars, proc, driverVars, committed, dbVars>>

\* the process is killed while a batch group is being written: the committed
\* transactions stay and the memory of scan() is gone; wpc, hpc and batchLink are
\* kept to tell where the writer was and which group it was writing
Kill ==
    /\ proc = "running"
    /\ wpc \in {"stxo", "history", "join"}
    /\ proc' = "killed"
    /\ dpc' = "dead"
    /\ startHeight' = 0
    /\ endHeight' = 0
    /\ batchVec' = << >>
    /\ utxoMap_' = EmptyMap
    /\ topScannedBlockHash_' = NullHash
    /\ links' = << >>
    /\ sentinel' = FALSE
    /\ batchFuture' = {}
    /\ serializedStxo' = EmptyMap
    /\ serializedSubSSH' = EmptyMap
    /\ UNCHANGED <<inputVars, wpc, hpc, batchLink, committed, dbVars>>

(* --------------------------- specifications --------------------------- *)
\* the chains without non-coinbase transactions
CoinbaseChains == ChainsFrom(<< >>, 0)

\* scan() as written: the writer thread waits on its copy of the empty future
Init == InitWith(CoinbaseChains, Layouts, 0 .. MaxHeight + 1)

Next ==
    \/ DriverStart("code")
    \/ DriverBeginBatch
    \/ DeliverBlocks
    \/ \E i \in 1 .. totalThreadCount_ : ScanTxOuts(i)
    \/ DriverMergeUtxos
    \/ \E i \in 1 .. totalThreadCount_ : ScanTxIns(i)
    \/ DriverPushBatch
    \/ DriverTerminate
    \/ WriterGetInvalid

Spec == Init /\ [][Next]_vars

\* the steps of Next by thread: the thread of scan(), the scan threads of the window on
\* their link chains, the write thread
DriverNext ==
    \/ DriverStart("code")
    \/ DriverBeginBatch
    \/ DriverMergeUtxos
    \/ DriverPushBatch
    \/ DriverTerminate

ScannerNext ==
    \/ DeliverBlocks
    \/ \E i \in 1 .. totalThreadCount_ : ScanTxOuts(i)
    \/ \E i \in 1 .. totalThreadCount_ : ScanTxIns(i)

WriterNext == WriterGetInvalid

\* Spec with every thread that can run scheduled in the end
SpecFair ==
    /\ Init
    /\ [][Next]_vars
    /\ WF_vars(DriverNext)
    /\ WF_vars(ScannerNext)
    /\ WF_vars(WriterNext)

\* the methods on their inputs: link chains filled, batch groups handed to the writer
InitScan == InitWith(ChainsFrom(<< >>, MaxSpendTxs), Layouts, {0})

NextScan ==
    \/ DriverStart("linked")
    \/ DriverBeginBatch
    \/ DeliverBlocks
    \/ \E i \in 1 .. totalThreadCount_ : ScanTxOuts(i)
    \/ DriverMergeUtxos
    \/ \E i \in 1 .. totalThreadCount_ : ScanTxIns(i)
    \/ DriverPushBatch
    \/ DriverTerminate
    \/ DriverJoin
    \/ WriterGet
    \/ WriterSerialize
    \/ WriterPutStxo
    \/ WriterPutHistory
    \/ HintsThread
    \/ WriterJoin("linked")
    \/ Kill

SpecScan == InitScan /\ [][NextScan]_vars

\* as SpecScan, on the chains with at most MaxWriteSpendTxs non-coinbase transactions
InitWrite == InitWith(ChainsFrom(<< >>, MaxWriteSpendTxs), Layouts, {0})

SpecWrite == InitWrite /\ [][NextScan]_vars

\* the chain of top height n whose blocks hold their coinbase only
CoinbaseChain(n) ==
    [x \in 1 .. n + 1 |->
        [height |-> x - 1, dup |-> 0, hash |-> HeaderHash(x - 1),
         txs |-> << [hash |-> TxHash(x - 1, 0), ins |-> <<CoinbaseIn>>,
                     outs |-> <<Out("A", 1)>>] >>]]

\* the block-file numbers of the heights 0 .. n: block 0 in blk00000.dat, each block in
\* the file of the block before it or in the next file
RECURSIVE LayoutsUpTo(_)
LayoutsUpTo(n) ==
    IF n = 0 THEN { [h \in {0} |-> 0] }
    ELSE { [h \in 0 .. n |-> IF h < n THEN f[h] ELSE f[n - 1] + d] :
             f \in LayoutsUpTo(n - 1), d \in {0, 1} }

\* the loop of scan() on chains of up to MaxWindowHeight + 1 blocks, from every height
InitWindows ==
    /\ \E n \in 0 .. MaxWindowHeight :
          ScanInitWith({CoinbaseChain(n)}, LayoutsUpTo(n), 0 .. n + 1)
    /\ BlockFilesOver(<< >>, {}, NoHash)
    /\ BdmOffline({}, {})

NextWindows ==
    \/ DriverStart("linked")
    \/ DriverBeginBatch
    \/ DeliverBlocks
    \/ \E i \in 1 .. totalThreadCount_ : ScanTxOuts(i)
    \/ DriverMergeUtxos
    \/ \E i \in 1 .. totalThreadCount_ : ScanTxIns(i)
    \/ DriverPushBatch
    \/ DriverTerminate

SpecWindows == InitWindows /\ [][NextWindows]_vars

\* blockDataLoop(txoutParser), one pass of its loop: the next block of the link chain is
\* handed to txoutParser
ScanBlock(i) ==
    /\ proc = "running"
    /\ dpc = "waitUtxos"
    /\ i \in DOMAIN batchVec
    /\ batchVec[i].scan = "txout"
    /\ scanned[i] < Len(batchVec[i].posted)
    /\ batchVec' = [batchVec EXCEPT
                       ![i] = txoutParser(@, chain[batchVec[i].posted[scanned[i] + 1] + 1])]
    /\ scanned' = [scanned EXCEPT ![i] = @ + 1]
    /\ UNCHANGED <<chain, layout, scanFrom, blockFileVars, bdmVars, flagged, waitIndex,
                   lockVec, deserError, chainMove, stamped, proc, dpc, startHeight, endHeight, utxoMap_,
                   topScannedBlockHash_, links, sentinel, writerVars, dbVars>>

\* the reader threads and the output passes of the first window, block by block
NextThrottle ==
    \/ DriverStart("linked")
    \/ DriverBeginBatch
    \/ \E i \in 1 .. totalThreadCount_ : ReaderStep(i)
    \/ \E i \in 1 .. totalThreadCount_ : ScanBlock(i)

SpecThrottle == InitWindows /\ [][NextThrottle]_vars

\* SpecThrottle with every thread scheduled in the end: the thread of scan(), each
\* reader thread and each scan thread take a step they can take. A reader inside
\* readThreadCV_.wait (lines 229-233) can take no step: nothing notifies the condition
\* variable, and after a spurious wake-up the loop tests the same condition again
SpecThrottleFair ==
    /\ SpecThrottle
    /\ WF_vars(DriverStart("linked") \/ DriverBeginBatch)
    /\ \A i \in 1 .. totalThreadCount_ : WF_vars(ReaderStep(i))
    /\ \A i \in 1 .. totalThreadCount_ : WF_vars(ScanBlock(i))

\* BlockData::deserialize lines 17-33: the checks made on the raw block before its
\* transactions are walked; the message of the runtime_error thrown, or "ok"
deserialize(raw, blockHeader) ==
    IF raw.size < HEADER_SIZE THEN "raw data is smaller than HEADER_SIZE"
    ELSE IF raw.hash # blockHeader.hash THEN "raw data does not back expected block hash"
    ELSE IF raw.numTx # Len(blockHeader.txs) THEN "tx count mismatch in deser header"
    ELSE "ok"

\* what the block file can hold at the offset the header of blk records: the block,
\* a record cut short, the bytes of another block, another transaction count
RawBlocksOf(blk) ==
    LET good == [size |-> RawBlockSize, hash |-> blk.hash, numTx |-> Len(blk.txs)]
    IN { good,
         [good EXCEPT !.size = HEADER_SIZE - 1],
         [good EXCEPT !.hash = blk.hash + 1],
         [good EXCEPT !.numTx = Len(blk.txs) + 1] }

\* readBlockData: one pass of its loop on the raw block the file holds, or the
\* termination block. Nothing catches what deserialize throws (lines 239-241, 261-264):
\* the exception leaves the detached thread's function and std::terminate is called
ReadRawBlock(i) ==
    /\ proc = "running"
    /\ dpc = "waitUtxos"
    /\ i \in DOMAIN batchVec
    /\ ~batchVec[i].terminated
    /\ LET b == batchVec[i]
       IN IF b.currentBlock >= b.end_
            THEN /\ ~(b.highestProcessedHeight_ > nBlocksLookAhead_ * totalThreadCount_)
                 /\ IF b.currentBlock > TopHeight
                      THEN /\ proc' = "aborted"
                           /\ UNCHANGED <<batchVec, deserError>>
                      ELSE \E raw \in RawBlocksOf(chain[b.currentBlock + 1]) :
                              IF deserialize(raw, chain[b.currentBlock + 1]) = "ok"
                                THEN /\ batchVec' = [batchVec EXCEPT
                                                       ![i].posted = Append(@, b.currentBlock),
                                                       ![i].currentBlock = @ + totalThreadCount_]
                                     /\ UNCHANGED <<proc, deserError>>
                                ELSE /\ deserError' = deserError \cup {b.currentBlock}
                                     /\ proc' = "aborted"
                                     /\ UNCHANGED batchVec
            ELSE /\ batchVec' = [batchVec EXCEPT ![i].terminated = TRUE]
                 /\ UNCHANGED <<proc, deserError>>
    /\ UNCHANGED <<chain, layout, scanFrom, blockFileVars, bdmVars, flagged, waitIndex,
                   lockVec, scanned, chainMove, stamped, dpc, startHeight, endHeight, utxoMap_,
                   topScannedBlockHash_, links, sentinel, writerVars, dbVars>>

\* the reader threads of the first window on the raw blocks of the block files
NextDeser ==
    \/ DriverStart("linked")
    \/ DriverBeginBatch
    \/ \E i \in 1 .. totalThreadCount_ : ReadRawBlock(i)
    \/ \E i \in 1 .. totalThreadCount_ : ScanBlock(i)

SpecDeser == InitWindows /\ [][NextDeser]_vars

\* a chain move while scan() is between two windows: the best chain loses its
\* headers from height m on, m below the height of the top block scan() copied
ChainMove ==
    /\ proc = "running"
    /\ dpc = "loop"
    /\ chainMove = {}
    /\ \E m \in 1 .. TopHeight - 1 : chainMove' = m .. TopHeight
    /\ UNCHANGED <<chain, layout, scanFrom, blockFileVars, bdmVars, flagged, waitIndex,
                   lockVec, scanned, deserError, stamped, proc, driverVars, writerVars, dbVars>>

\* scan() and its threads as in Next, with chain moves between the windows
NextMove ==
    \/ Next
    \/ ChainMove

SpecMove == Init /\ [][NextMove]_vars

\* as SpecScan, the link chains filled by readBlockData
InitRead == InitWith(CoinbaseChains, Layouts, 0 .. MaxHeight)

NextRead ==
    \/ DriverStart("linked")
    \/ DriverBeginBatch
    \/ \E i \in 1 .. totalThreadCount_ : ReaderStep(i)
    \/ \E i \in 1 .. totalThreadCount_ : ScanTxOuts(i)
    \/ DriverMergeUtxos
    \/ \E i \in 1 .. totalThreadCount_ : ScanTxIns(i)
    \/ DriverPushBatch
    \/ DriverTerminate
    \/ DriverJoin
    \/ WriterGet
    \/ WriterSerialize
    \/ WriterPutStxo
    \/ WriterPutHistory
    \/ HintsThread
    \/ WriterJoin("linked")

SpecRead == InitRead /\ [][NextRead]_vars

(* ------------------- the barrier between the two passes ---------------- *)
\* scan() lines 104-159 as in DriverBeginBatch, told thread by thread: every mu_ is in
\* lockVec and every scan thread is started, none of them has run yet
StartScanThreads ==
    /\ proc = "running"
    /\ dpc = "loop"
    /\ startHeight <= TopHeight
    /\ LET target == BatchTargetHeight(startHeight)
       IN IF target < 0
            THEN /\ dpc' = "terminate"
                 /\ UNCHANGED <<endHeight, batchVec, barrierVars>>
            ELSE /\ dpc' = "waitUtxos"
                 /\ endHeight' = target
                 /\ batchVec' = [i \in 1 .. totalThreadCount_ |->
                                    NewBatch(startHeight + (i - 1), target)]
                 /\ flagged' = {}
                 /\ waitIndex' = 1
                 /\ lockVec' = 1 .. totalThreadCount_
    /\ UNCHANGED <<chain, layout, scanFrom, blockFileVars, bdmVars, scanned, deserError, chainMove, stamped, proc, startHeight,
                   utxoMap_, topScannedBlockHash_, links, sentinel, writerVars, dbVars>>

\* scanBlockData lines 424-426: batch->doneScanningUtxos_ = utxoScanFlag.get_future()
AssignFlag(i) ==
    /\ proc = "running"
    /\ i \in DOMAIN batchVec
    /\ batchVec[i].scan = "txout"
    /\ i \notin flagged
    /\ flagged' = flagged \cup {i}
    /\ UNCHANGED <<chain, layout, scanFrom, blockFileVars, bdmVars, scanned, deserError, chainMove, stamped, waitIndex, lockVec,
                   proc, driverVars, writerVars, dbVars>>

\* scanBlockData lines 428-433: blockDataLoop(txoutParser), utxoScanFlag.set_value(true)
ScanOutputs(i) ==
    /\ proc = "running"
    /\ i \in flagged
    /\ i \in DOMAIN batchVec
    /\ batchVec[i].terminated
    /\ batchVec[i].scan = "txout"
    /\ batchVec' = [batchVec EXCEPT
                       ![i] = [txoutPass(batchVec[i], chain, 1) EXCEPT !.scan = "mutex"]]
    /\ UNCHANGED <<inputVars, proc, dpc, startHeight, endHeight, utxoMap_,
                   topScannedBlockHash_, links, sentinel, writerVars, dbVars>>

\* shared_future::get() on a future without shared state, the copy the driver takes of a
\* doneScanningUtxos_ that scanBlockData has not assigned yet: future_error(no_state) is
\* thrown; the frames are unwound when a caller of scan() has a handler for it, and
\* std::terminate is called at once when none has
NoStateOutcomes == {"unwinds", "terminates"}

\* scan() lines 161-166: one pass of the loop that copies doneScanningUtxos_ and waits on
\* the copy. Nothing orders the copy after the assignment of AssignFlag.
DriverGetFlag ==
    /\ proc = "running"
    /\ dpc = "waitUtxos"
    /\ waitIndex \in DOMAIN batchVec
    /\ IF waitIndex \in flagged
         THEN \* get() returns once set_value(true) is called
              /\ batchVec[waitIndex].scan # "txout"
              /\ waitIndex' = waitIndex + 1
              /\ UNCHANGED <<flagged, lockVec, proc, dpc>>
         ELSE \E how \in NoStateOutcomes :
                 IF how = "unwinds"
                   THEN \* ~lockVec releases every mu_
                        /\ lockVec' = {}
                        /\ dpc' = "unwinding"
                        /\ UNCHANGED <<flagged, waitIndex, proc>>
                   ELSE /\ proc' = "aborted"
                        /\ UNCHANGED <<barrierVars, dpc>>
    /\ UNCHANGED <<chain, layout, scanFrom, blockFileVars, bdmVars, scanned, deserError, chainMove, stamped, startHeight, endHeight,
                   batchVec, utxoMap_, topScannedBlockHash_, links, sentinel, writerVars,
                   dbVars>>

\* the unwinding goes on to tIDs (line 136): ~thread on a joinable thread, std::terminate
DriverUnwindThreads ==
    /\ proc = "running"
    /\ dpc = "unwinding"
    /\ proc' = "aborted"
    /\ UNCHANGED <<inputVars, driverVars, writerVars, dbVars>>

\* scan() lines 168-175: the wait loop is over; utxoMap_ is updated, lockVec.clear()
DriverMergeAndRelease ==
    /\ proc = "running"
    /\ dpc = "waitUtxos"
    /\ waitIndex > Len(batchVec)
    /\ utxoMap_' = MergeUtxos(utxoMap_, batchVec, 1)
    /\ lockVec' = {}
    /\ dpc' = "waitTxins"
    /\ UNCHANGED <<chain, layout, scanFrom, blockFileVars, bdmVars, scanned, deserError, chainMove, stamped, flagged, waitIndex,
                   proc, startHeight, endHeight, batchVec, topScannedBlockHash_, links,
                   sentinel, writerVars, dbVars>>

\* a scan thread that goes on to its input pass whoever holds mu_
ScanWithoutMutex(i) ==
    /\ proc = "running"
    /\ i \in DOMAIN batchVec
    /\ batchVec[i].scan = "mutex"
    /\ batchVec' = [batchVec EXCEPT ![i].scan = "txin"]
    /\ UNCHANGED <<inputVars, proc, dpc, startHeight, endHeight, utxoMap_,
                   topScannedBlockHash_, links, sentinel, writerVars, dbVars>>

\* scanBlockData line 434: unique_lock<mutex> lock(batch->mu_) returns once lockVec has
\* released mu_; the input pass begins
ScanLockMutex(i) ==
    /\ proc = "running"
    /\ i \in DOMAIN batchVec
    /\ batchVec[i].scan = "mutex"
    /\ i \notin lockVec
    /\ batchVec' = [batchVec EXCEPT ![i].scan = "txin"]
    /\ UNCHANGED <<inputVars, proc, dpc, startHeight, endHeight, utxoMap_,
                   topScannedBlockHash_, links, sentinel, writerVars, dbVars>>

\* scanBlockData lines 436-438: blockDataLoop(txinParser), the thread function returns
ScanInputs(i) ==
    /\ proc = "running"
    /\ i \in DOMAIN batchVec
    /\ batchVec[i].scan = "txin"
    /\ \E mv \in MovedFromOutcomes :
          batchVec' = [batchVec EXCEPT
                          ![i] = [txinPass(batchVec[i], chain, utxoMap_, mv, 1)
                                     EXCEPT !.scan = "done"]]
    /\ UNCHANGED <<inputVars, proc, dpc, startHeight, endHeight, utxoMap_,
                   topScannedBlockHash_, links, sentinel, writerVars, dbVars>>

\* scan() with its scan threads told step by step, the link chains filled
InitBarrier == InitWith(ChainsFrom(<< >>, 1), Layouts, {0})

NextBarrier ==
    \/ DriverStart("linked")
    \/ StartScanThreads
    \/ DeliverBlocks
    \/ \E i \in 1 .. totalThreadCount_ : AssignFlag(i)
    \/ \E i \in 1 .. totalThreadCount_ : ScanOutputs(i)
    \/ DriverGetFlag
    \/ DriverUnwindThreads
    \/ DriverMergeAndRelease
    \/ \E i \in 1 .. totalThreadCount_ : ScanLockMutex(i)
    \/ \E i \in 1 .. totalThreadCount_ : ScanInputs(i)
    \/ DriverPushBatch

SpecBarrier == InitBarrier /\ [][NextBarrier]_vars

(* ----------------------------- block files ---------------------------- *)
UINT16_MAX == 65535
\* the value GetFileSize returns for a missing file: no file has this size
FILE_DOES_NOT_EXIST == 0 - 1

NoFile == [exists |-> FALSE, bytes |-> << >>]
FileOf(b) == [exists |-> TRUE, bytes |-> b]

\* BtcUtils::GetFileSize(BtcUtils::getBlkFilename(blkFileLocation_, fnum))
GetFileSize(d, fnum) ==
    IF fnum + 1 <= Len(d) /\ d[fnum + 1].exists
    THEN Len(d[fnum + 1].bytes)
    ELSE FILE_DOES_NOT_EXIST

BlkFile(num, size, cumul) == [fnum |-> num, filesize |-> size, filesizeCumul |-> cumul]

\* resuming without the step back to the popped file
ResumeAfterLast(files) == Len(files)
\* the number detectAllBlkFiles resumes at, having popped the last known file
ResumeAt(files) == Len(files) - 1

\* the while loop of detectAllBlkFiles
RECURSIVE DetectLoop(_, _, _, _)
DetectLoop(d, files, total, numBlkFiles) ==
    IF numBlkFiles < UINT16_MAX /\ GetFileSize(d, numBlkFiles) # FILE_DOES_NOT_EXIST
    THEN DetectLoop(d,
                    Append(files, BlkFile(numBlkFiles, GetFileSize(d, numBlkFiles), total)),
                    total + GetFileSize(d, numBlkFiles),
                    numBlkFiles + 1)
    ELSE [files |-> files, total |-> total, threw |-> numBlkFiles = UINT16_MAX]

\* detectAllBlkFiles with the size of the popped file left in the total
DetectFromKeepTotal(d, files, total) ==
    IF Len(files) > 0
    THEN DetectLoop(d, SubSeq(files, 1, Len(files) - 1), total, ResumeAt(files))
    ELSE DetectLoop(d, files, total, 0)

DetectFrom(d, files, total) ==
    IF Len(files) > 0
    THEN DetectLoop(d, SubSeq(files, 1, Len(files) - 1),
                    total - files[Len(files)].filesize, ResumeAt(files))
    ELSE DetectLoop(d, files, total, 0)

detectAllBlkFiles ==
    /\ LET r == DetectFrom(disk, blkFiles_, totalBlockchainBytes_)
       IN  /\ blkFiles_' = r.files
           /\ totalBlockchainBytes_' = r.total
           /\ returned' = [op |-> "detectAllBlkFiles", threw |-> r.threw,
                            popped |-> IF Len(blkFiles_) > 0
                                         THEN <<blkFiles_[Len(blkFiles_)]>> ELSE << >>]
    /\ detectCalls' = IF detectCalls < MaxDetectCalls THEN detectCalls + 1 ELSE detectCalls
    /\ delivered' = << >>
    /\ UNCHANGED <<disk, allHeaders, topHash, scanVars>>

totalBlockchainBytes == totalBlockchainBytes_
numBlockFiles == Len(blkFiles_)

\* offsetAtStartOfFile(fnum): filesizeCumul of the entry, or the range_error
offsetAtStartOfFile(fnum) ==
    IF fnum = 0 THEN 0
    ELSE IF fnum >= Len(blkFiles_) THEN "range_error"
    ELSE blkFiles_[fnum + 1].filesizeCumul

\* the directory changes under the program: a file is created, grows, is cut, is removed
PadTo(d, n) == d \o [i \in 1 .. n - Len(d) |-> NoFile]

CreateFile(n) ==
    /\ GetFileSize(disk, n) = FILE_DOES_NOT_EXIST
    /\ disk' = [PadTo(disk, n + 1) EXCEPT ![n + 1] = FileOf(<< >>)]
    /\ UNCHANGED <<blkFiles_, totalBlockchainBytes_, detectCalls, allHeaders, topHash,
                   delivered, returned, scanVars>>

GrowFile(n) ==
    /\ GetFileSize(disk, n) # FILE_DOES_NOT_EXIST
    /\ GetFileSize(disk, n) < MaxFileSize
    /\ disk' = [disk EXCEPT ![n + 1].bytes = Append(@, 0)]
    /\ UNCHANGED <<blkFiles_, totalBlockchainBytes_, detectCalls, allHeaders, topHash,
                   delivered, returned, scanVars>>

TruncateFile(n) ==
    /\ GetFileSize(disk, n) # FILE_DOES_NOT_EXIST
    /\ GetFileSize(disk, n) > 0
    /\ disk' = [disk EXCEPT ![n + 1].bytes = SubSeq(@, 1, Len(@) - 1)]
    /\ UNCHANGED <<blkFiles_, totalBlockchainBytes_, detectCalls, allHeaders, topHash,
                   delivered, returned, scanVars>>

RemoveFile(n) ==
    /\ GetFileSize(disk, n) # FILE_DOES_NOT_EXIST
    /\ disk' = [disk EXCEPT ![n + 1] = NoFile]
    /\ UNCHANGED <<blkFiles_, totalBlockchainBytes_, detectCalls, allHeaders, topHash,
                   delivered, returned, scanVars>>

\* the scanner is not running
ScannerIdle == ScanInitWith({<< >>}, {[h \in Heights |-> 0]}, {0})

\* detectAllBlkFiles called again and again while the directory changes
InitFiles == ScannerIdle /\ BdmOffline({}, {}) /\ BlockFilesOver(<< >>, {}, NoHash)

NextFiles ==
    \/ detectAllBlkFiles
    \/ \E n \in 0 .. MaxBlkFiles - 1 : CreateFile(n)
    \/ \E n \in 0 .. MaxBlkFiles - 1 : GrowFile(n)
    \/ \E n \in 0 .. MaxBlkFiles - 1 : TruncateFile(n)
    \/ \E n \in 0 .. MaxBlkFiles - 1 : RemoveFile(n)

SpecFiles == InitFiles /\ [][NextFiles]_vars

(* ---------------------------- file contents --------------------------- *)
HEAD_AND_NTX_SZ == HEADER_SIZE + 10

\* magicBytes_ (MAINNET_MAGIC_BYTES) and the magic of another network
Magic == <<249, 190, 180, 217>>
OtherMagic == <<11, 17, 9, 7>>

WRITE_UINT32_LE(n) ==
    <<n % 256, (n \div 256) % 256, (n \div 65536) % 256, (n \div 16777216) % 256>>
READ_UINT32_LE(b) == b[1] + 256 * b[2] + 65536 * b[3] + 16777216 * b[4]

Zeros(k) == [i \in 1 .. k |-> 0]

\* the record of the block whose bytes are all id: <magic:4><size:4 LE><raw block>
RecordOf(magic, id) == magic \o WRITE_UINT32_LE(RawBlockSize) \o [i \in 1 .. RawBlockSize |-> id]

\* the id of the k-th block of file fnum
BlockId(fnum, k) == 1 + fnum * MaxFileBlocks + (k - 1)

\* a file of Len(gaps) records, gaps[k] zero bytes in front of the k-th one
RECURSIVE FileBytes(_, _, _)
FileBytes(magic, fnum, gaps) ==
    IF gaps = << >> THEN << >>
    ELSE FileBytes(magic, fnum, SubSeq(gaps, 1, Len(gaps) - 1))
         \o Zeros(gaps[Len(gaps)]) \o RecordOf(magic, BlockId(fnum, Len(gaps)))

\* the file without its last cut bytes
CutTail(b, cut) == SubSeq(b, 1, Len(b) - cut)

\* how much of the last record a crashed write can leave out: nothing, its last byte,
\* all but part of the header, the whole raw block, half the size field, all but the magic
Cuts ==
    {0, 1, RawBlockSize - HEADER_SIZE + 1, RawBlockSize, RawBlockSize + 2, RawBlockSize + 4}

GapSeqs == UNION {[1 .. n -> 0 .. MaxGap] : n \in 1 .. MaxFileBlocks}

\* the bytes b[p] .. b[p + n - 1] of a file, offsets counted from 0; a byte behind the
\* end of the mapping reads as zero where it can be read at all
ByteAt(b, p) == IF p < Len(b) THEN b[p + 1] ELSE 0
BytesAt(b, p, n) == [i \in 1 .. n |-> ByteAt(b, p + i - 1)]

\* BtcUtils::getHash256 of the 80 bytes of a header, taken as free of collisions: two
\* headers have the same hash when their 80 bytes are the same
getHash256(rawHead) == <<"hash256", SubSeq(rawHead, 1, HEADER_SIZE)>>

\* reading behind the end of a mapped file: the rest of the last page reads as zeros, or
\* the access faults
BeyondOutcomes == {"zeros", "fault"}
\* istream::seekg clears eofbit (C++11) or leaves it (C++03)
SeekgOutcomes == {"clears eofbit", "keeps eofbit"}

NotFound == 0 - 1

\* the number of leading bytes at p that match the magic
FirstDiff(b, p) ==
    IF ByteAt(b, p) # Magic[1] THEN 0
    ELSE IF ByteAt(b, p + 1) # Magic[2] THEN 1
    ELSE IF ByteAt(b, p + 2) # Magic[3] THEN 2
    ELSE IF ByteAt(b, p + 3) # Magic[4] THEN 3
    ELSE 4

\* scanFor(const uint8_t *in, inLen, bytes, len) with in = filemap + start: the loop
\* tests offset 0 and then every offset o with o + len < inLen, and stops at the first
\* match; a comparison reads the bytes of its window up to the first mismatch
scanForMem(b, start, inLen, beyond) ==
    LET tested == {0} \cup {o \in 1 .. inLen : o + 4 < inLen}
        Touched(o) == IF FirstDiff(b, start + o) = 4 THEN start + o + 3
                      ELSE start + o + FirstDiff(b, start + o)
        hits == {o \in tested : FirstDiff(b, start + o) = 4}
        run == IF hits = {} THEN tested ELSE {o \in tested : o <= Min(hits)}
        faults == {o \in run : Touched(o) >= Len(b)}
    IN  IF beyond = "fault" /\ faults # {} THEN [kind |-> "fault", offset |-> Min(faults)]
        ELSE IF hits # {} THEN [kind |-> "found", offset |-> Min(hits)]
        ELSE [kind |-> "none", offset |-> NotFound]

\* scanFor(std::istream &in, bytes, len) with the stream at q: the ring buffer ahead
\* holds the 4 bytes in front of the stream position, so the loop stops at the first
\* window at or behind q that holds the magic; the result is the position behind the
\* match, or NotFound with the stream at end of file
scanForStream(b, q) ==
    LET hits == {w \in q .. Len(b) - 4 : BytesAt(b, w, 4) = Magic}
    IN  IF hits = {} THEN NotFound ELSE Min(hits) + 4

\* scanFor's inner for loop at in + offset: the number of leading bytes that match
\* bytes; a byte behind the memory mem counts as read once the bytes in front match
RECURSIVE MatchLen(_, _, _, _)
MatchLen(mem, offset, bytes, i) ==
    IF i >= Len(bytes) THEN i
    ELSE IF offset + i >= Len(mem) THEN i
    ELSE IF mem[offset + i + 1] # bytes[i + 1] THEN i
    ELSE MatchLen(mem, offset, bytes, i + 1)

\* the do-while loop of scanFor(in, inLen, bytes, len) from offset on; in points to
\* mem, which holds the inLen bytes of the buffer and what lies behind them. reach is
\* the number of bytes of mem up to the last byte the comparisons have read. A read
\* behind mem faults
RECURSIVE ScanForLoop(_, _, _, _, _)
ScanForLoop(mem, inLen, bytes, offset, reach) ==
    LET m == MatchLen(mem, offset, bytes, 0)
        found == m = Len(bytes)
        read == IF found THEN offset + m ELSE offset + m + 1
        reached == Max({reach, read})
    IN  IF ~found /\ offset + m >= Len(mem)
          THEN [kind |-> "fault", ret |-> NotFound, reach |-> reached]
        ELSE IF found THEN [kind |-> "returned", ret |-> offset, reach |-> reached]
        ELSE IF offset + 1 + Len(bytes) < inLen
          THEN ScanForLoop(mem, inLen, bytes, offset + 1, reached)
        ELSE [kind |-> "returned", ret |-> NotFound, reach |-> reached]

scanFor(mem, inLen, bytes) == ScanForLoop(mem, inLen, bytes, 0, 0)

(* ------------------------------ readers ------------------------------- *)
\* one invocation of blockDataCallback(data, pos, blksize); dataAt is the file offset the
\* data was read from and present the number of its bytes that were read from the file
Callback(data, fnum, offset, size, at, n) ==
    [bytes |-> data, pos |-> <<fnum, offset>>, blksize |-> size, dataAt |-> at, present |-> n]

Ended(how, cbs, offset) == [cbs |-> cbs, ret |-> offset, end |-> how]

\* the while loop of readRawBlocksFromFile over the mapping b of file f
RECURSIVE RawLoop(_, _, _, _, _, _, _)
RawLoop(b, f, stopBefore, beyond, pos, blockFileOffset, cbs) ==
    IF ~(pos < Min({f.filesize, stopBefore})) THEN Ended("returned", cbs, blockFileOffset)
    ELSE IF pos + 4 >= f.filesize THEN Ended("returned", cbs, blockFileOffset)
    ELSE
    LET isMagic == BytesAt(b, pos, 4) = Magic
        sc == IF isMagic THEN [kind |-> "found", offset |-> 0]
              ELSE scanForMem(b, pos + 4, f.filesize - (pos + 4), beyond)
        szAt == IF isMagic THEN pos + 4 ELSE pos + 4 + sc.offset + 4
        blkSize == READ_UINT32_LE(BytesAt(b, szAt, 4))
        blkAt == szAt + 4
    IN  IF sc.kind = "fault" THEN Ended("fault", cbs, blockFileOffset)
        ELSE IF sc.kind = "none" THEN Ended("returned", cbs, blockFileOffset)
        ELSE IF szAt + 4 > Len(b) /\ beyond = "fault" THEN Ended("fault", cbs, blockFileOffset)
        ELSE IF blkAt >= f.filesize THEN Ended("returned", cbs, blockFileOffset)
        ELSE IF blkAt + blkSize > Len(b) /\ beyond = "fault"
             THEN Ended("fault", cbs, blockFileOffset)
        ELSE RawLoop(b, f, stopBefore, beyond, blkAt + blkSize, blkAt + blkSize,
                     Append(cbs, Callback(BytesAt(b, blkAt, blkSize), f.fnum, blockFileOffset,
                                          blkSize, blkAt,
                                          Min({blkSize, Max({0, Len(b) - blkAt})}))))

readRawBlocksFromFile(b, f, blockFileOffset, stopBefore, beyond) ==
    IF blockFileOffset >= stopBefore THEN Ended("returned", << >>, blockFileOffset)
    ELSE IF Len(b) < 4 /\ beyond = "fault" THEN Ended("fault", << >>, blockFileOffset)
    ELSE RawLoop(b, f, stopBefore, beyond, blockFileOffset, blockFileOffset, << >>)

\* std::ifstream: position, eofbit, failbit
StreamAt(p) == [pos |-> p, eof |-> FALSE, fail |-> FALSE]

\* is.read(buf, n): a short read keeps the rest of buf and sets eofbit and failbit; a
\* stream that is not good() reads nothing and sets failbit
StreamRead(b, st, buf, n) ==
    LET avail == Max({0, Len(b) - st.pos})
    IN  IF st.eof \/ st.fail
        THEN [st |-> [st EXCEPT !.fail = TRUE], buf |-> buf, gcount |-> 0]
        ELSE IF avail >= n
        THEN [st |-> [st EXCEPT !.pos = @ + n], buf |-> BytesAt(b, st.pos, n), gcount |-> n]
        ELSE [st |-> [pos |-> st.pos + avail, eof |-> TRUE, fail |-> TRUE],
              buf |-> [i \in 1 .. n |-> IF i <= avail THEN ByteAt(b, st.pos + i - 1) ELSE buf[i]],
              gcount |-> avail]

\* a position far behind the end of any file
FarBeyond == 2 ^ 30
\* nextBlkSize - HEAD_AND_NTX_SZ in uint32_t
SeekOffset(nextBlkSize) ==
    IF nextBlkSize >= HEAD_AND_NTX_SZ THEN nextBlkSize - HEAD_AND_NTX_SZ ELSE FarBeyond

\* is.seekg(off, ios::cur)
StreamSeekCur(st, off, lib) ==
    LET cleared == IF lib = "clears eofbit" THEN [st EXCEPT !.eof = FALSE] ELSE st
    IN  IF cleared.fail THEN cleared ELSE [cleared EXCEPT !.pos = @ + off]

\* when a callback throws: on the hashes inside the set, or on those outside it
ThrowsInside(hashes) == [inside |-> TRUE, hashes |-> hashes]
ThrowsOutside(hashes) == [inside |-> FALSE, hashes |-> hashes]
NeverThrows == ThrowsInside({})
Throws(throwsOn, hash) == (hash \in throwsOn.hashes) = throwsOn.inside

\* the while loop of readHeadersFromFile with a callback that throws as throwsOn says
RECURSIVE HeadLoop(_, _, _, _, _, _, _, _)
HeadLoop(b, fnum, lib, throwsOn, st, bufs, blockFileOffset, cbs) ==
    IF st.eof THEN Ended("returned", cbs, blockFileOffset)
    ELSE
    LET r1 == StreamRead(b, st, bufs.magic, 4)
        scan == IF r1.buf = Magic THEN r1.st.pos
                ELSE IF r1.st.fail THEN NotFound
                ELSE scanForStream(b, r1.st.pos)
        r2 == StreamRead(b, [r1.st EXCEPT !.pos = scan], bufs.szstr, 4)
        nextBlkSize == READ_UINT32_LE(r2.buf)
        r3 == StreamRead(b, r2.st, bufs.rawHead, HEAD_AND_NTX_SZ)
        called == Append(cbs, Callback(r3.buf, fnum, blockFileOffset, nextBlkSize,
                                       r2.st.pos, r3.gcount))
    IN  IF r1.st.eof THEN Ended("returned", cbs, blockFileOffset)
        ELSE IF scan = NotFound THEN Ended("returned", cbs, blockFileOffset)
        ELSE IF r2.st.eof THEN Ended("returned", cbs, blockFileOffset)
        ELSE IF Throws(throwsOn, getHash256(r3.buf))
             THEN Ended("stopped", called, blockFileOffset)
        ELSE IF r1.st.fail THEN Ended("spins", called, blockFileOffset)
        ELSE HeadLoop(b, fnum, lib, throwsOn,
                      StreamSeekCur(r3.st, SeekOffset(nextBlkSize), lib),
                      [magic |-> r1.buf, szstr |-> r2.buf, rawHead |-> r3.buf],
                      blockFileOffset + nextBlkSize + 8, called)

\* BinaryData magic(4), szstr(4), rawHead(HEAD_AND_NTX_SZ)
FreshBuffers == [magic |-> Zeros(4), szstr |-> Zeros(4), rawHead |-> Zeros(HEAD_AND_NTX_SZ)]

readHeadersFromFile(b, f, blockFileOffset, lib, throwsOn) ==
    IF StreamRead(b, StreamAt(0), Zeros(4), 4).buf # Magic
    THEN Ended("runtime_error", << >>, blockFileOffset)
    ELSE HeadLoop(b, f.fnum, lib, throwsOn, StreamAt(blockFileOffset), FreshBuffers,
                  blockFileOffset, << >>)

\* what an ifstream or a mapping of blkNNNNN.dat reads
BytesOf(d, fnum) == IF GetFileSize(d, fnum) = FILE_DOES_NOT_EXIST THEN << >> ELSE d[fnum + 1].bytes

\* the while loop of readHeaders; the runtime_error of readHeadersFromFile is not caught
RECURSIVE ReadHeadersLoop(_, _, _, _, _, _, _)
ReadHeadersLoop(d, files, first, second, lib, finishOffset, cbs) ==
    IF first < Len(files)
    THEN LET r == readHeadersFromFile(BytesOf(d, first), files[first + 1], second, lib, NeverThrows)
         IN  IF r.end = "returned"
             THEN ReadHeadersLoop(d, files, first + 1, 0, lib, r.ret, cbs \o r.cbs)
             ELSE Ended(r.end, cbs \o r.cbs, <<first, r.ret>>)
    ELSE Ended("returned", cbs, <<first - 1, finishOffset>>)

readHeaders(d, files, startAt, lib) ==
    IF startAt[1] = Len(files) THEN Ended("returned", << >>, startAt)
    ELSE IF startAt[1] > Len(files) THEN Ended("runtime_error", << >>, startAt)
    ELSE ReadHeadersLoop(d, files, startAt[1], startAt[2], lib, startAt[2], << >>)

\* the while loop of readRawBlocks; blkFiles_[blkFiles_.size()] is no element of the vector
RECURSIVE ReadRawBlocksLoop(_, _, _, _, _, _, _, _)
ReadRawBlocksLoop(d, files, first, second, stopAt, beyond, finishLocation, cbs) ==
    IF first <= stopAt[1]
    THEN IF first >= Len(files) THEN Ended("undefined", cbs, <<first, finishLocation>>)
         ELSE
         LET f == files[first + 1]
             stopAtOffset == IF first < stopAt[1] THEN f.filesize ELSE stopAt[2]
             r == readRawBlocksFromFile(BytesOf(d, first), f, second, stopAtOffset, beyond)
         IN  IF r.end = "returned"
             THEN ReadRawBlocksLoop(d, files, first + 1, 0, stopAt, beyond, r.ret,
                                    cbs \o r.cbs)
             ELSE Ended(r.end, cbs \o r.cbs, <<first, r.ret>>)
    ELSE Ended("returned", cbs, <<first - 1, finishLocation>>)

readRawBlocks(d, files, startAt, stopAt, beyond) ==
    IF startAt[1] = Len(files) THEN Ended("returned", << >>, startAt)
    ELSE IF startAt[1] > Len(files) THEN Ended("runtime_error", << >>, startAt)
    ELSE ReadRawBlocksLoop(d, files, startAt[1], startAt[2],
                           <<Min({stopAt[1], Len(files)}), stopAt[2]>>, beyond,
                           stopAt[2], << >>)

Report(name, n, r) == [op |-> name, fnum |-> n, end |-> r.end, ret |-> r.ret]

\* the methods called with a callback that records its arguments
CallReadHeadersFromFile(n, lib) ==
    /\ n < Len(blkFiles_)
    /\ LET r == readHeadersFromFile(BytesOf(disk, n), blkFiles_[n + 1], 0, lib, NeverThrows)
       IN  /\ delivered' = r.cbs
           /\ returned' = Report("readHeadersFromFile", n, r)
    /\ UNCHANGED <<disk, blkFiles_, totalBlockchainBytes_, detectCalls, allHeaders, topHash,
                   scanVars>>

CallReadRawBlocksFromFile(n, beyond) ==
    /\ n < Len(blkFiles_)
    /\ LET f == blkFiles_[n + 1]
           r == readRawBlocksFromFile(BytesOf(disk, n), f, 0, f.filesize, beyond)
       IN  /\ delivered' = r.cbs
           /\ returned' = Report("readRawBlocksFromFile", n, r)
    /\ UNCHANGED <<disk, blkFiles_, totalBlockchainBytes_, detectCalls, allHeaders, topHash,
                   scanVars>>

CallReadHeaders(lib) ==
    /\ Len(blkFiles_) > 0
    /\ LET r == readHeaders(disk, blkFiles_, <<0, 0>>, lib)
       IN  /\ delivered' = r.cbs
           /\ returned' = Report("readHeaders", Len(blkFiles_), r)
    /\ UNCHANGED <<disk, blkFiles_, totalBlockchainBytes_, detectCalls, allHeaders, topHash,
                   scanVars>>

\* readRawBlocks from the first byte up to the end of the last detected file
CallReadRawBlocks(beyond) ==
    /\ Len(blkFiles_) > 0
    /\ LET last == blkFiles_[Len(blkFiles_)]
           r == readRawBlocks(disk, blkFiles_, <<0, 0>>, <<last.fnum, last.filesize>>, beyond)
       IN  /\ delivered' = r.cbs
           /\ returned' = Report("readRawBlocks", Len(blkFiles_), r)
    /\ UNCHANGED <<disk, blkFiles_, totalBlockchainBytes_, detectCalls, allHeaders, topHash,
                   scanVars>>

\* getFirstHash(f)
getFirstHash(b) ==
    IF Len(b) < 88 THEN NoHash
    ELSE IF BytesAt(b, 0, 4) # Magic THEN NoHash
    ELSE getHash256(BytesAt(b, 8, HEADER_SIZE))

\* the for loop of findFirstUnrecognizedBlockHeader: the first file whose first hash is
\* not in allHeaders, blkFiles_.size() if there is none
FirstUnknownFile(d, files, known) ==
    Min({Len(files)} \cup {n \in 0 .. Len(files) - 1 : getFirstHash(BytesOf(d, n)) \notin known})

\* foundAtPosition after the callbacks cbs, starting from found
LastPos(cbs, found) == IF cbs = << >> THEN found ELSE cbs[Len(cbs)].pos

\* the offset behind the genesis block in blk00000.dat
GenesisEnd == 293

\* the search for the top block, from file fnum downwards, with checkBlkHash
RECURSIVE FindTopBlock(_, _, _, _, _)
FindTopBlock(d, files, fnum, top, lib) ==
    IF fnum < 0 THEN "not found"
    ELSE LET r == readHeadersFromFile(BytesOf(d, fnum), files[fnum + 1], 0, lib,
                                      ThrowsInside({top}))
         IN  IF r.end = "stopped" THEN "found"
             ELSE IF r.end = "returned" THEN FindTopBlock(d, files, fnum - 1, top, lib)
             ELSE r.end

\* foundTopBlock after the first read: a recognized header is the top block
FoundTopBlock(r, top) ==
    \E i \in 1 .. (IF r.end = "stopped" THEN Len(r.cbs) - 1 ELSE Len(r.cbs)) :
        getHash256(r.cbs[i].bytes) = top

\* foundAtPosition after the first read (lines 210-247)
FoundAtPosition(r) ==
    IF r.end = "returned" THEN <<LastPos(r.cbs, <<0, 0>>)[1], r.ret>>
    ELSE LastPos(r.cbs, <<0, 0>>)

\* lines 297-313: the file of foundAtPosition is read again with
\* stopIfBlkHeaderRecognized
CheckMissingHashes(again, foundAtPosition) ==
    IF again.end = "stopped" THEN Ended("returned", again.cbs, <<0, 0>>)
    ELSE IF again.end # "returned" THEN Ended(again.end, again.cbs, foundAtPosition)
    ELSE Ended("returned", again.cbs, LastPos(again.cbs, foundAtPosition))

\* a search that keeps foundAtPosition when the top block is in no file
SearchTopBlockNoRescan(d, files, known, lib, cbs, foundAtPosition, search) ==
    IF search # "found" THEN Ended("returned", cbs, foundAtPosition)
    ELSE CheckMissingHashes(
            readHeadersFromFile(BytesOf(d, foundAtPosition[1]),
                                files[foundAtPosition[1] + 1], 0, lib, ThrowsOutside(known)),
            foundAtPosition)

\* lines 250-314: the top block was not seen in the first read
SearchTopBlock(d, files, known, lib, cbs, foundAtPosition, search) ==
    IF search = "not found" THEN Ended("returned", cbs, <<0, 0>>)
    ELSE IF search # "found" THEN Ended(search, cbs, foundAtPosition)
    ELSE CheckMissingHashes(
            readHeadersFromFile(BytesOf(d, foundAtPosition[1]),
                                files[foundAtPosition[1] + 1], 0, lib, ThrowsOutside(known)),
            foundAtPosition)

\* lines 228-316: what follows the first read r
AfterFirstRead(d, files, known, top, lib, r) ==
    IF r.end \notin {"returned", "stopped"}
      THEN Ended(r.end, r.cbs, LastPos(r.cbs, <<0, 0>>))
    ELSE IF LastPos(r.cbs, <<0, 0>>) = <<0, GenesisEnd>> THEN Ended("returned", r.cbs, <<0, 0>>)
    ELSE IF FoundTopBlock(r, top) THEN Ended("returned", r.cbs, FoundAtPosition(r))
    ELSE SearchTopBlock(d, files, known, lib, r.cbs, FoundAtPosition(r),
                        FindTopBlock(d, files, Len(files) - 1, top, lib))

findFirstUnrecognizedBlockHeader(d, files, known, top, lib) ==
    IF FirstUnknownFile(d, files, known) = 0 THEN Ended("returned", << >>, <<0, 0>>)
    ELSE AfterFirstRead(d, files, known, top, lib,
            readHeadersFromFile(BytesOf(d, FirstUnknownFile(d, files, known) - 1),
                                files[FirstUnknownFile(d, files, known)], 0, lib,
                                ThrowsOutside(known)))

\* the positions stopIfBlkHeaderRecognized sets (lines 224-225) over the callbacks cbs:
\* each header of the store gets the position of its last callback
StampsOf(cbs, known) ==
    LET seen == {i \in DOMAIN cbs : getHash256(cbs[i].bytes) \in known}
    IN [h \in {getHash256(cbs[i].bytes) : i \in seen} |->
          cbs[Max({i \in seen : getHash256(cbs[i].bytes) = h})].pos]

\* the positions the call of findFirstUnrecognizedBlockHeader that ended as r has set:
\* those of the first read (lines 229-235), then those of the read of lines 297-300
FindStamps(d, files, known, lib, r) ==
    IF FirstUnknownFile(d, files, known) = 0 THEN << >>
    ELSE StampsOf(r.cbs, known)
         @@ StampsOf(readHeadersFromFile(BytesOf(d, FirstUnknownFile(d, files, known) - 1),
                                         files[FirstUnknownFile(d, files, known)], 0, lib,
                                         ThrowsOutside(known)).cbs, known)

CallFindFirstUnrecognizedBlockHeader(lib) ==
    /\ \E r \in {findFirstUnrecognizedBlockHeader(disk, blkFiles_, allHeaders, topHash, lib)} :
           /\ delivered' = r.cbs
           /\ returned' = Report("findFirstUnrecognizedBlockHeader", Len(blkFiles_), r)
           /\ stamped' = FindStamps(disk, blkFiles_, allHeaders, lib, r) @@ stamped
    /\ UNCHANGED <<disk, blkFiles_, totalBlockchainBytes_, detectCalls, allHeaders, topHash,
                   chain, layout, scanFrom, proc, driverVars, writerVars, dbVars, bdmVars,
                   flagged, waitIndex, lockVec, scanned, deserError, chainMove>>

\* the loop of getFileAndPosForBlockHash (lines 435-447) from file i downwards: filePos
\* is the position of the last callback, the callback throws on the hash looked for
RECURSIVE FilePosLoop(_, _, _, _, _, _, _)
FilePosLoop(d, files, i, hash, lib, filePos, cbs) ==
    IF i < 0 THEN Ended("returned", cbs, filePos)
    ELSE LET r == readHeadersFromFile(BytesOf(d, i), files[i + 1], 0, lib, ThrowsInside({hash}))
         IN  IF r.end = "stopped" THEN Ended("returned", cbs \o r.cbs, LastPos(r.cbs, filePos))
             ELSE IF r.end = "returned"
                  THEN FilePosLoop(d, files, i - 1, hash, lib, LastPos(r.cbs, filePos),
                                   cbs \o r.cbs)
             ELSE Ended(r.end, cbs \o r.cbs, LastPos(r.cbs, filePos))

\* getFileAndPosForBlockHash(blk): the last file is skipped
getFileAndPosForBlockHash(d, files, hash, lib) ==
    FilePosLoop(d, files, Len(files) - 2, hash, lib, <<0, 0>>, << >>)

\* getFileAndPosForBlockHash on a header of the store that has no position yet (line
\* 410): lines 452-453 set its position unless an exception other than StopReading has
\* left the function
CallGetFileAndPosForBlockHash(hash, lib) ==
    /\ hash \in allHeaders
    /\ hash \notin DOMAIN stamped
    /\ \E r \in {getFileAndPosForBlockHash(disk, blkFiles_, hash, lib)} :
           /\ delivered' = r.cbs
           /\ returned' = [op |-> "getFileAndPosForBlockHash", fnum |-> Len(blkFiles_),
                           end |-> r.end, ret |-> r.ret, hash |-> hash]
           /\ stamped' = IF r.end = "returned" THEN (hash :> r.ret) @@ stamped ELSE stamped
    /\ UNCHANGED <<disk, blkFiles_, totalBlockchainBytes_, detectCalls, allHeaders, topHash,
                   chain, layout, scanFrom, proc, driverVars, writerVars, dbVars, bdmVars,
                   flagged, waitIndex, lockVec, scanned, deserError, chainMove>>

\* the files of a directory of several files: one well-formed record, one record of
\* another network, zero fill in front of one well-formed record
FileKinds(fnum) ==
    { FileBytes(Magic, fnum, <<0>>), FileBytes(OtherMagic, fnum, <<0>>),
      FileBytes(Magic, fnum, <<4>>) }

\* the directories of n files of these kinds
RECURSIVE Directories(_)
Directories(n) ==
    IF n = 0 THEN {<< >>}
    ELSE {Append(d, FileOf(b)) : d \in Directories(n - 1), b \in FileKinds(n - 1)}

\* the readers on a directory that does not change: one file of up to MaxFileBlocks
\* records with zero fill between them and a cut tail, or several files
InitReaders ==
    /\ ScannerIdle
    /\ BdmOffline({}, {})
    /\ \E d \in {<<FileOf(CutTail(FileBytes(Magic, 0, g), c))>> : g \in GapSeqs, c \in Cuts}
              \cup UNION {Directories(n) : n \in 2 .. MaxBlkFiles} :
          BlockFilesOver(d, {}, NoHash)

NextReaders ==
    \/ detectAllBlkFiles
    \/ \E n \in 0 .. MaxBlkFiles - 1, lib \in SeekgOutcomes : CallReadHeadersFromFile(n, lib)
    \/ \E n \in 0 .. MaxBlkFiles - 1, beyond \in BeyondOutcomes :
          CallReadRawBlocksFromFile(n, beyond)
    \/ \E lib \in SeekgOutcomes : CallReadHeaders(lib)
    \/ \E beyond \in BeyondOutcomes : CallReadRawBlocks(beyond)

SpecReaders == InitReaders /\ [][NextReaders]_vars

\* the directories of n files of 1 .. MaxFileBlocks well-formed records each
RECURSIVE WellFormedDirectories(_)
WellFormedDirectories(n) ==
    IF n = 0 THEN {<< >>}
    ELSE {Append(d, FileOf(FileBytes(Magic, n - 1, [k \in 1 .. m |-> 0]))) :
            d \in WellFormedDirectories(n - 1), m \in 1 .. MaxFileBlocks}

\* the hashes of the headers of the blocks of a directory of n files
HashesOf(n) ==
    {getHash256([i \in 1 .. HEADER_SIZE |-> BlockId(fnum, k)]) :
        fnum \in 0 .. n - 1, k \in 1 .. MaxFileBlocks}

\* findFirstUnrecognizedBlockHeader on a directory of well-formed files, for every set of
\* headers in the header store and every top block among them
InitFind ==
    /\ ScannerIdle
    /\ BdmOffline({}, {})
    /\ \E n \in 1 .. MaxBlkFiles :
          \E d \in WellFormedDirectories(n), known \in SUBSET HashesOf(n) :
             \E top \in known : BlockFilesOver(d, known, top)

NextFind ==
    \/ detectAllBlkFiles
    \/ \E lib \in SeekgOutcomes : CallFindFirstUnrecognizedBlockHeader(lib)

SpecFind == InitFind /\ [][NextFind]_vars

\* the two methods that set the position of a header, called in any order
NextStamp ==
    \/ detectAllBlkFiles
    \/ \E lib \in SeekgOutcomes : CallFindFirstUnrecognizedBlockHeader(lib)
    \/ \E hash \in allHeaders, lib \in SeekgOutcomes : CallGetFileAndPosForBlockHash(hash, lib)

\* the hashes of the headers of the blocks of the first m files of a directory of
\* well-formed files
HeadersIn(d, m) ==
    UNION { {getHash256([i \in 1 .. HEADER_SIZE |-> BlockId(fnum, k)]) :
                k \in 1 .. Len(d[fnum + 1].bytes) \div (RawBlockSize + 8)} :
            fnum \in 0 .. m - 1 }

\* a header store that holds the headers of all the files, none of them with a
\* position yet, and any of them as the top block
InitStamp ==
    /\ ScannerIdle
    /\ BdmOffline({}, {})
    /\ \E n \in 1 .. MaxBlkFiles :
          \E d \in WellFormedDirectories(n) :
             \E top \in HeadersIn(d, n) : BlockFilesOver(d, HeadersIn(d, n), top)

SpecStamp == InitStamp /\ [][NextStamp]_vars

\* readRawBlocks called with any pair of positions: startAt.first up to
\* blkFiles_.size(), stopAt.first up to one more, offsets at the record boundaries
CallReadRawBlocksBetween(startAt, stopAt, beyond) ==
    /\ \E r \in {readRawBlocks(disk, blkFiles_, startAt, stopAt, beyond)} :
           /\ delivered' = r.cbs
           /\ returned' = [op |-> "readRawBlocksBetween", fnum |-> Len(blkFiles_),
                           end |-> r.end, ret |-> r.ret, startAt |-> startAt]
    /\ UNCHANGED <<disk, blkFiles_, totalBlockchainBytes_, detectCalls, allHeaders, topHash,
                   scanVars>>

NextBetween ==
    \/ detectAllBlkFiles
    \/ \E sf \in 0 .. MaxBlkFiles, tf \in 0 .. MaxBlkFiles + 1,
          so \in {0, RawBlockSize + 8}, to \in {0, RawBlockSize + 8, 2 * (RawBlockSize + 8)},
          beyond \in BeyondOutcomes :
          CallReadRawBlocksBetween(<<sf, so>>, <<tf, to>>, beyond)

\* directories of 1 .. MaxBlkFiles well-formed files, none detected yet
InitBetween ==
    /\ ScannerIdle
    /\ BdmOffline({}, {})
    /\ \E n \in 1 .. MaxBlkFiles : \E d \in WellFormedDirectories(n) :
          BlockFilesOver(d, {}, NoHash)

SpecBetween == InitBetween /\ [][NextBetween]_vars

\* scanFor on every memory of up to MaxMem bytes, of which the first inLen are the
\* buffer, and every pattern of up to MaxPattern bytes
MaxMem == 4
MaxPattern == 2
ScanBytes == {1, 2}

RECURSIVE BytesUpTo(_)
BytesUpTo(n) ==
    IF n = 0 THEN {<< >>}
    ELSE BytesUpTo(n - 1)
         \cup {Append(b, x) : b \in {c \in BytesUpTo(n - 1) : Len(c) = n - 1}, x \in ScanBytes}

CallScanFor(inLen, bytes) ==
    /\ Len(disk) = 1
    /\ inLen <= Len(disk[1].bytes)
    /\ \E r \in {scanFor(disk[1].bytes, inLen, bytes)} :
           returned' = [op |-> "scanFor", inLen |-> inLen, bytes |-> bytes,
                        end |-> r.kind, ret |-> r.ret, reach |-> r.reach]
    /\ UNCHANGED <<disk, blkFiles_, totalBlockchainBytes_, detectCalls, allHeaders, topHash,
                   delivered, scanVars>>

InitScanFor ==
    /\ ScannerIdle
    /\ BdmOffline({}, {})
    /\ \E mem \in BytesUpTo(MaxMem) : BlockFilesOver(<<FileOf(mem)>>, {}, NoHash)

NextScanFor ==
    \E inLen \in 0 .. MaxMem, bytes \in BytesUpTo(MaxPattern) \ {<< >>} :
        CallScanFor(inLen, bytes)

SpecScanFor == InitScanFor /\ [][NextScanFor]_vars

(* -------------------------- BlockDataManager -------------------------- *)
ScrAddrs == 1 .. MaxAddrs

bdmIsRunning == BDMstate_ # "BDM_offline"

\* ScrAddrFilter::getAllScrAddrInDB: the address records of the database join the filter
getAllScrAddrInDB(mem, db) == mem \cup db
\* ScrAddrFilter::putAddrMapInDB: one record per address of the filter
putAddrMapInDB(mem, db) == db \cup mem
\* the sub-databases resetHistoryDatabases and destroyAndResetDatabases leave with data
resetHistoryDatabases(dbs) == dbs \cap {"HEADERS"}
destroyAndResetDatabases(dbs) == {}

\* doInitialSyncOnLoad, _Rescan, _Rebuild, _RescanBalance up to their first call
doInitialSyncOnLoad(mode) ==
    /\ bdmpc = "idle"
    /\ resetMode' = mode
    /\ bdmpc' = IF mode = "none" THEN "loadDiskState" ELSE "resetDatabases"
    /\ addrsBefore' = IF mode = "none" THEN addrsBefore
                      ELSE [mem |-> scrAddrMap_, db |-> dbScrAddrs]
    /\ UNCHANGED <<BDMstate_, scrAddrMap_, dbScrAddrs, subDbs, blockFileVars, scannerVars>>

\* resetDatabases(Reset_SSH): iface_->resetSSHdb(); return
ResetSSHdb ==
    /\ bdmpc = "resetDatabases"
    /\ resetMode = "Reset_SSH"
    /\ subDbs' = subDbs \ {"SSH"}
    /\ bdmpc' = "loadDiskState"
    /\ UNCHANGED <<BDMstate_, resetMode, scrAddrMap_, dbScrAddrs, addrsBefore, blockFileVars,
                   scannerVars>>

\* resetDatabases, other modes: scrAddrData_->getAllScrAddrInDB()
ResetGetAllScrAddrInDB ==
    /\ bdmpc = "resetDatabases"
    /\ resetMode # "Reset_SSH"
    /\ scrAddrMap_' = getAllScrAddrInDB(scrAddrMap_, dbScrAddrs)
    /\ bdmpc' = "switch"
    /\ UNCHANGED <<BDMstate_, resetMode, dbScrAddrs, subDbs, addrsBefore, blockFileVars,
                   scannerVars>>

\* the switch of resetDatabases: the address records go with the sub-databases
ResetSubDbs ==
    /\ bdmpc = "switch"
    /\ subDbs' = IF resetMode = "Reset_Rescan" THEN resetHistoryDatabases(subDbs)
                 ELSE destroyAndResetDatabases(subDbs)
    /\ dbScrAddrs' = {}
    /\ bdmpc' = "reapply"
    /\ UNCHANGED <<BDMstate_, resetMode, scrAddrMap_, addrsBefore, blockFileVars, scannerVars>>

\* the end of resetDatabases without its putAddrMapInDB
ResetWithoutPut ==
    /\ bdmpc = "reapply"
    /\ bdmpc' = "loadDiskState"
    /\ UNCHANGED <<BDMstate_, resetMode, scrAddrMap_, dbScrAddrs, subDbs, addrsBefore,
                   blockFileVars, scannerVars>>

\* scrAddrData_->putAddrMapInDB(); scrAddrData_->clear() (the sync cursors start over)
ResetPutAddrMapInDB ==
    /\ bdmpc = "reapply"
    /\ dbScrAddrs' = putAddrMapInDB(scrAddrMap_, dbScrAddrs)
    /\ bdmpc' = "loadDiskState"
    /\ UNCHANGED <<BDMstate_, resetMode, scrAddrMap_, subDbs, addrsBefore, blockFileVars,
                   scannerVars>>

\* loadDiskState up to the call of dbBuilder_->init()
LoadDiskStateBegin ==
    /\ bdmpc = "loadDiskState"
    /\ BDMstate_' = "BDM_initializing"
    /\ bdmpc' = "init"
    /\ UNCHANGED <<resetMode, scrAddrMap_, dbScrAddrs, subDbs, addrsBefore, blockFileVars,
                   scannerVars>>

\* dbBuilder_->init() throws: loadDiskState is left by the exception, and the state is set
\* to ready all the same
InitThrowsNonetheless ==
    /\ bdmpc = "init"
    /\ bdmpc' = "failed"
    /\ BDMstate_' = "BDM_ready"
    /\ UNCHANGED <<resetMode, scrAddrMap_, dbScrAddrs, subDbs, addrsBefore, blockFileVars,
                   scannerVars>>

\* dbBuilder_->init() throws: loadDiskState is left by the exception
InitThrows ==
    /\ bdmpc = "init"
    /\ bdmpc' = "failed"
    /\ UNCHANGED <<BDMstate_, resetMode, scrAddrMap_, dbScrAddrs, subDbs, addrsBefore,
                   blockFileVars, scannerVars>>

\* dbBuilder_->init() returns, the databases built: the rest of loadDiskState
InitReturns ==
    /\ bdmpc = "init"
    /\ subDbs' = SubDbNames
    /\ BDMstate_' = "BDM_ready"
    /\ bdmpc' = "idle"
    /\ resetMode' = "none"
    /\ UNCHANGED <<scrAddrMap_, dbScrAddrs, addrsBefore, blockFileVars, scannerVars>>

\* a BlockDataManager with any addresses registered and any stored, started in any mode,
\* and started again once it is ready
InitBDM ==
    /\ ScannerIdle
    /\ BlockFilesOver(<< >>, {}, NoHash)
    /\ \E mem \in SUBSET ScrAddrs, db \in SUBSET ScrAddrs : BdmOffline(mem, db)

NextBDM ==
    \/ \E mode \in {"none", "Reset_Rescan", "Reset_Rebuild", "Reset_SSH"} :
          doInitialSyncOnLoad(mode)
    \/ ResetSSHdb
    \/ ResetGetAllScrAddrInDB
    \/ ResetSubDbs
    \/ ResetPutAddrMapInDB
    \/ LoadDiskStateBegin
    \/ InitThrows
    \/ InitReturns

SpecBDM == InitBDM /\ [][NextBDM]_vars

(* ------------------------------ claims -------------------------------- *)
Range(f) == { f[x] : x \in DOMAIN f }

\* the records a batch group puts in STXO / HISTORY that the store holds
VisibleOf(db, serialized) ==
    { key \in DOMAIN serialized : key \in DOMAIN db /\ db[key] = serialized[key] }

\* the batch group has a StoredTxHints to write
HasHints(link) == \E k \in DOMAIN link.batchVec_ : DOMAIN link.batchVec_[k].utxos_ # {}

C2_SdbiAfterAllRecords ==
    (proc = "running" /\ wpc = "join" /\ HasHints(batchLink)) => hpc = "done"

OutputsOf(c) ==
    UNION { UNION { { [h |-> b - 1, i |-> t - 1, y |-> o - 1, hash |-> c[b].txs[t].hash,
                       scrAddr |-> c[b].txs[t].outs[o].scrAddr,
                       value |-> c[b].txs[t].outs[o].value]
                      : o \in DOMAIN c[b].txs[t].outs }
                    : t \in DOMAIN c[b].txs }
            : b \in DOMAIN c }

\* the keys (height, dup, tx index, input index) of the inputs of c that reference
\* output (hash, y)
SpendersOf(c, hash, y) ==
    UNION { UNION { { <<b - 1, c[b].dup, t - 1, x - 1>> : x \in
                        { x \in DOMAIN c[b].txs[t].ins :
                            /\ c[b].txs[t].ins[x].prevHash = hash
                            /\ c[b].txs[t].ins[x].prevIdx = y } }
                    : t \in DOMAIN c[b].txs }
            : b \in DOMAIN c }

RECURSIVE SumValue(_)
SumValue(S) ==
    IF S = {} THEN 0
    ELSE LET e == CHOOSE x \in S : TRUE IN e.value + SumValue(S \ {e})

\* the balance of address a obtained by replaying chain c
ReplayBalance(c, a) ==
    SumValue({ o \in OutputsOf(c) : o.scrAddr = a /\ SpendersOf(c, o.hash, o.y) = {} })

\* the STXO record stored under a key
StoredStxo(db, key) == db[key][Len(db[key])]

\* the sum of the Unspent STXO records of address a
StxoBalance(db, a) ==
    SumValue({ [key |-> key, value |-> StoredStxo(db, key).value] : key \in
                 { key \in DOMAIN db : /\ StoredStxo(db, key).scrAddr = a
                                       /\ StoredStxo(db, key).spentness = "UNSPENT" } })

\* scan() has returned and every height of the chain was in a committed batch group
ScannedAll == dpc = "returned" /\ UNION Range(committed) = 0 .. TopHeight

\* C4: after scan() over [0, top], the Unspent STXO records of every watched
\* address sum to the balance obtained by replaying the chain
C4_BalanceMatchesReplay ==
    ScannedAll => \A a \in Watched : StxoBalance(dbSTXO, a) = ReplayBalance(chain, a)

\* C5: the input at the txin key of every STXO record marked Spent references the
\* record's output: same parent tx hash, same output index
C5_SpenderReferencesOutput ==
    \A key \in DOMAIN dbSTXO :
        LET r == StoredStxo(dbSTXO, key)
            k == r.spentByTxInKey
        IN r.spentness = "SPENT" =>
              LET txin == chain[k[1] + 1].txs[k[3] + 1].ins[k[4] + 1]
              IN txin.prevHash = r.parentHash /\ txin.prevIdx = r.txOutIndex

\* C6: when scan() waits on the writer thread, the terminator delivered, the writer
\* is alive and on a future with a shared state, on which the published batch
\* groups and the terminator can reach it
C6_WriterReachable ==
    dpc = "join" =>
        /\ proc = "running"
        /\ wpc # "hung"
        /\ (wpc = "get" => batchFuture # {})

\* C7: the hash the HISTORY transaction writes to the SDBI is the hash of a header
\* of the best chain, the one at the highest height the batch group scanned
C7_TopHashIsHighestScanned ==
    (proc = "running" /\ wpc = "join") =>
        /\ \E h \in 0 .. TopHeight : chain[h + 1].hash = sdbiTopBlkHash
        /\ HeightsOf(batchLink) # {}
        /\ sdbiTopBlkHash = chain[Max(HeightsOf(batchLink)) + 1].hash

\* C8: writing a batch group a second time (the writes of writeBlockData and of
\* processAndCommitTxHints on the same batch contents) leaves STXO, HISTORY and
\* TXHINTS as they are after the first write
C8_ReplayChangesNothing ==
    (proc = "running" /\ wpc = "join" /\ hpc = "done") =>
        /\ PutAll(dbSTXO, serializedStxo) = dbSTXO
        /\ PutAll(dbHISTORY, serializedSubSSH) = dbHISTORY
        /\ processAndCommitTxHints(dbTXHINTS, batchLink.batchVec_) = dbTXHINTS

\* the tx keys processAndCommitTxHints is to file under their hash prefix for a group
HintKeysOf(link, prefix) ==
    UNION { UNION { { StxoDBKeyOfParentTx(u) : u \in Range(link.batchVec_[k].utxos_[t]) }
                    : t \in { t \in DOMAIN link.batchVec_[k].utxos_ : HashPrefix(t) = prefix } }
            : k \in DOMAIN link.batchVec_ }

\* C9: when processAndCommitTxHints commits, the hint list of every prefix holds
\* every key stored for it before and the tx key of every transaction of the group
\* with a watched output and that prefix
C9_HintsAccumulate ==
    [][ (hpc = "run" /\ hpc' = "done") =>
          \A prefix \in 0 .. PrefixMod - 1 :
             LET before == IF prefix \in DOMAIN dbTXHINTS
                             THEN Range(dbTXHINTS[prefix].dbKeyList_) ELSE {}
                 wanted == before \cup HintKeysOf(batchLink, prefix)
             IN wanted # {} =>
                   /\ prefix \in DOMAIN dbTXHINTS'
                   /\ wanted \subseteq Range(dbTXHINTS'[prefix].dbKeyList_) ]_vars

\* C10: a watched output created at h1 and spent by an input at a later height h2
\* is stored Spent by that input's key; its address has one sub-history at h1 and
\* one at h2, the latter with the TxIOPair (value, txout key, txin key)
C10_SpendRecorded ==
    ScannedAll =>
        \A o \in OutputsOf(chain) : \A k \in SpendersOf(chain, o.hash, o.y) :
            (o.scrAddr \in Watched /\ k[1] > o.h) =>
                LET okey == getBlkDataKeyNoPrefix(o.h, 0, o.i, o.y)
                    hist1 == SubSshDBKey(o.scrAddr, heightAndDupToHgtx(o.h, 0))
                    hist2 == SubSshDBKey(o.scrAddr, heightAndDupToHgtx(k[1], k[2]))
                IN /\ okey \in DOMAIN dbSTXO
                   /\ StoredStxo(dbSTXO, okey).spentness = "SPENT"
                   /\ StoredStxo(dbSTXO, okey).spentByTxInKey = k
                   /\ hist1 \in DOMAIN dbHISTORY
                   /\ Len(dbHISTORY[hist1]) = 1
                   /\ hist2 \in DOMAIN dbHISTORY
                   /\ Len(dbHISTORY[hist2]) = 1
                   /\ [value |-> o.value, txOut |-> okey, txIn |-> k]
                         \in Range(dbHISTORY[hist2][1])

\* C11: after any sequence of detectAllBlkFiles calls interleaved with changes of the
\* directory, the detected files are a gap-free prefix: the entry at index i is file
\* number i, so blkN is in the set only together with blk0 .. blk(N-1)
C11_GapFreePrefix ==
    \A i \in 1 .. Len(blkFiles_) : blkFiles_[i].fnum = i - 1

\* a later call has re-detected a set of two or more files, the first of which has grown
\* since it was measured
C11_RedetectedAfterGrowth ==
    /\ detectCalls >= 2
    /\ returned.op = "detectAllBlkFiles"
    /\ Len(blkFiles_) >= 2
    /\ blkFiles_[1].filesize < GetFileSize(disk, 0)

\* C12: totalBlockchainBytes() and numBlockFiles() never decrease from one
\* detectAllBlkFiles call to the next, whatever the directory holds at each call
C12_TotalsNeverDecrease ==
    [][/\ totalBlockchainBytes' >= totalBlockchainBytes
       /\ numBlockFiles' >= numBlockFiles]_vars

\* the file the last read was made on, and the records that lie whole in a file
ReadFile == BytesOf(disk, returned.fnum)
OneFileRead == returned.op \in {"readHeadersFromFile", "readRawBlocksFromFile"}
WellFormedAt(b, p) ==
    /\ p + 8 <= Len(b)
    /\ BytesAt(b, p, 4) = Magic
    /\ p + 8 + READ_UINT32_LE(BytesAt(b, p + 4, 4)) <= Len(b)
WellFormed(b) == {p \in 0 .. Len(b) : WellFormedAt(b, p)}
DeliveredAt == {delivered[i].dataAt : i \in 1 .. Len(delivered)}

\* C13: a reader that finds other bytes than the magic where a block should start
\* resumes at the next magic at any later offset, so that every well-formed block of a
\* file of the right network is delivered, whatever lies between the blocks
C13_EveryWellFormedBlockDelivered ==
    (OneFileRead /\ BytesAt(ReadFile, 0, 4) = Magic)
        => \A p \in WellFormed(ReadFile) : p + 8 \in DeliveredAt

\* C14: the (file number, offset) handed to the callback with a block is the offset at
\* which the magic of that block starts, also for a block behind zero fill
C14_PositionIsStartOfMagic ==
    OneFileRead =>
        \A i \in 1 .. Len(delivered) :
            WellFormedAt(ReadFile, delivered[i].dataAt - 8)
                => delivered[i].pos = <<returned.fnum, delivered[i].dataAt - 8>>

\* the first detected file whose first four bytes are not the magic, if there is one
WrongNetwork(n) == BytesAt(BytesOf(disk, n), 0, 4) # Magic
FirstWrongNetwork == Min({n \in 0 .. Len(blkFiles_) - 1 : WrongNetwork(n)})
AllFilesRead == returned.op \in {"readHeaders", "readRawBlocks"}
DeliveredFrom(n) == {delivered[i].dataAt : i \in {j \in 1 .. Len(delivered) : delivered[j].pos[1] = n}}

\* C15: a file whose first four bytes are not the magic is of the wrong network: no
\* reader delivers a block of it or of a file of a higher number, and the blocks of the
\* files of lower numbers are delivered
C15_WrongNetworkFileEndsTheRead ==
    (AllFilesRead /\ \E n \in 0 .. Len(blkFiles_) - 1 : WrongNetwork(n))
        => /\ \A i \in 1 .. Len(delivered) : delivered[i].pos[1] < FirstWrongNetwork
           /\ \A n \in 0 .. FirstWrongNetwork - 1 :
                 \A p \in WellFormed(BytesOf(disk, n)) : p + 8 \in DeliveredFrom(n)

\* the records of the file lie one behind the other from offset 0, up to a cut tail
EndOf(b, p) == p + 8 + READ_UINT32_LE(BytesAt(b, p + 4, 4))
LastCompleteEnd(b) == Max({0} \cup {EndOf(b, p) : p \in WellFormed(b)})
Contiguous(b) ==
    /\ \A p \in WellFormed(b) : p = 0 \/ \E q \in WellFormed(b) : EndOf(b, q) = p
    /\ \A p \in LastCompleteEnd(b) .. Len(b) - 1 :
          ByteAt(b, p) = RecordOf(Magic, ByteAt(b, Len(b) - 1))[p - LastCompleteEnd(b) + 1]

\* C16: a record cut short at the end of the file ends the read cleanly: the callback is
\* invoked only for headers whose 80 bytes, and for blocks whose declared size, lie in
\* the file, and the offset returned is the end of the last complete block
C16_TruncatedTailStopsCleanly ==
    (OneFileRead /\ Contiguous(ReadFile))
        => /\ returned.end = "returned"
           /\ returned.ret = LastCompleteEnd(ReadFile)
           /\ \A i \in 1 .. Len(delivered) :
                 IF returned.op = "readHeadersFromFile"
                 THEN delivered[i].present >= HEADER_SIZE
                 ELSE delivered[i].dataAt + delivered[i].blksize <= Len(ReadFile)

\* the positions of the headers of the detected files that are not in the header store
UnknownHeaders ==
    {q \in (0 .. Len(blkFiles_) - 1) \X (0 .. Max({0} \cup {f.filesize : f \in Range(blkFiles_)})) :
        /\ WellFormedAt(BytesOf(disk, q[1]), q[2])
        /\ getHash256(BytesAt(BytesOf(disk, q[1]), q[2] + 8, HEADER_SIZE)) \notin allHeaders}
Before(q, r) == q[1] < r[1] \/ (q[1] = r[1] /\ q[2] < r[2])

\* C17: findFirstUnrecognizedBlockHeader returns the position of the first header, in
\* file order, that is not in the header store: no header in front of the returned
\* (file, offset) is unknown, whichever headers are known
C17_NoUnknownHeaderBefore ==
    (returned.op = "findFirstUnrecognizedBlockHeader" /\ returned.end = "returned")
        => \A q \in UnknownHeaders : ~Before(q, returned.ret)

\* C18: the state goes from offline to initializing to ready: it is set to initializing
\* before DatabaseBuilder::init is entered, to ready only by the return of init, it is
\* never ready while init is in progress, and never becomes ready when init fails
C18_ReadyOnlyAfterInit ==
    /\ [](bdmpc \in {"init", "failed"} => BDMstate_ = "BDM_initializing")
    /\ [][BDMstate_' # BDMstate_ =>
            \/ BDMstate_' = "BDM_initializing" /\ bdmpc = "loadDiskState" /\ bdmpc' = "init"
            \/ /\ BDMstate_ = "BDM_initializing" /\ BDMstate_' = "BDM_ready"
               /\ bdmpc = "init" /\ bdmpc' = "idle"]_vars

\* init has failed after a reset of the databases, and the state is still initializing
C18_InitFailedAfterReset ==
    /\ bdmpc = "failed"
    /\ resetMode = "Reset_Rescan"
    /\ bdmIsRunning
    /\ BDMstate_ = "BDM_initializing"

C20_TwoPassBarrier ==
    \A i \in DOMAIN batchVec :
        batchVec[i].scan \in {"txin", "done"} =>
            /\ dpc = "waitTxins"
            /\ \A j \in DOMAIN batchVec : batchVec[j].scan \in {"mutex", "txin", "done"}

\* the writer has taken the k-th link: its future is that of the k-th promise and get()
\* has returned, or it is a later one
Received(k) ==
    /\ batchFuture # {}
    /\ \/ PromiseOf(batchFuture) > k
       \/ PromiseOf(batchFuture) = k /\ wpc \notin {"none", "get"}

(* C21: the future chain from scan() to writeBlockData delivers every batch group, once
   and in the order of publication: in the end the writer has taken the k-th BatchLink
   scan() set on a promise from the k-th get() on its future. *)
C21_EveryGroupReceived ==
    \A k \in 1 .. MaxHeight + 1 : [](Len(links) >= k => <>Received(k))

\* the window [start, end] of a published batch group
WindowOf(link) == [start |-> link.batchVec_[1].start_, end |-> link.batchVec_[1].end_]

(* C22: the batch windows of one scan(scanFrom) partition [scanFrom, top]: the first
   window starts at scanFrom, each window [start, end] has start <= end, the next one
   starts at end + 1, and when the loop is over the last one ends at the top. *)
C22_WindowsPartition ==
    /\ \A k \in DOMAIN links : WindowOf(links[k]).start <= WindowOf(links[k]).end
    /\ links # << >> => WindowOf(links[1]).start = scanFrom
    /\ \A k \in 1 .. Len(links) - 1 :
          WindowOf(links[k + 1]).start = WindowOf(links[k]).end + 1
    /\ dpc = "join" => /\ links # << >>
                       /\ WindowOf(links[Len(links)]).end = TopHeight

(* C23: in a window [start, end] the reader thread of a batch posts no block above end,
   and once it has posted the terminating link the link chain holds exactly the blocks
   of the batch's stride (start_, start_ + R, ... up to end), in ascending order. *)
C23_ReaderPostsItsStride ==
    \A i \in DOMAIN batchVec :
        /\ \A x \in DOMAIN batchVec[i].posted : batchVec[i].posted[x] <= batchVec[i].end_
        /\ batchVec[i].terminated =>
              batchVec[i].posted = StrideHeights(batchVec[i].start_, batchVec[i].end_)

(* C24: reader throttle. Once the scan thread of a batch has processed a block, the
   height of the last block the reader thread has posted exceeds
   highestProcessedHeight_ by at most nBlocksLookAhead_ * totalThreadCount_. *)
C24_ReaderStaysWithinLookAhead ==
    \A i \in DOMAIN batchVec :
        (scanned[i] >= 1 /\ batchVec[i].posted # << >>) =>
            batchVec[i].posted[Len(batchVec[i].posted)] - batchVec[i].highestProcessedHeight_
                <= nBlocksLookAhead_ * totalThreadCount_

OutputRecorded(b, blk, i, y) ==
    LET txn == blk.txs[i + 1]
        txout == txn.outs[y + 1]
        sshKey == SubSshDBKey(txout.scrAddr, heightAndDupToHgtx(blk.height, blk.dup))
        txioKey == getBlkDataKeyNoPrefix(blk.height, blk.dup, i, y)
    IN /\ txn.hash \in DOMAIN b.utxos_
       /\ y \in DOMAIN b.utxos_[txn.hash]
       /\ b.utxos_[txn.hash][y].txOutIndex = y
       /\ b.utxos_[txn.hash][y].value = txout.value
       /\ sshKey \in DOMAIN b.ssh_
       /\ txioKey \in DOMAIN b.ssh_[sshKey]
       /\ b.ssh_[sshKey][txioKey].value = txout.value
       /\ b.ssh_[sshKey][txioKey].txOut = txioKey

OutputAbsent(b, blk, i, y) ==
    LET txn == blk.txs[i + 1]
        txioKey == getBlkDataKeyNoPrefix(blk.height, blk.dup, i, y)
    IN /\ txn.hash \in DOMAIN b.utxos_ =>
             \A k \in DOMAIN b.utxos_[txn.hash] : b.utxos_[txn.hash][k].txOutIndex # y
       /\ \A sshKey \in DOMAIN b.ssh_ : txioKey \notin DOMAIN b.ssh_[sshKey]

(* C26: once a scan thread has finished its output pass, every watched output of
   the blocks it scanned is in the batch's utxos_ under (tx hash, output index) and
   has its TxIOPair (value, txout key) in the address's sub-history; an unwatched
   output has neither *)
C26_WatchedOutputsRecorded ==
    \A n \in DOMAIN batchVec :
        batchVec[n].scan = "mutex" =>
            \A k \in DOMAIN batchVec[n].posted :
                LET blk == chain[batchVec[n].posted[k] + 1]
                IN \A t \in DOMAIN blk.txs : \A o \in DOMAIN blk.txs[t].outs :
                      IF blk.txs[t].outs[o].scrAddr \in Watched
                         THEN OutputRecorded(batchVec[n], blk, t - 1, o - 1)
                         ELSE OutputAbsent(batchVec[n], blk, t - 1, o - 1)


\* utxoMap_ holds the watched output (hash, idx), under whatever key
InUtxoMap(hash, idx) ==
    /\ hash \in DOMAIN utxoMap_
    /\ \E k \in DOMAIN utxoMap_[hash] : utxoMap_[hash][k].txOutIndex = idx

(* C27: once a scan thread has finished its input pass, every input of the blocks
   it scanned that names a watched output held in utxoMap_ has put that output in
   spentTxOuts_, marked Spent by the key of this input, and an input that names no
   such output has put no record in spentTxOuts_ *)
C27_SpendsRecorded ==
    \A n \in DOMAIN batchVec :
        batchVec[n].scan = "done" =>
            \A k \in DOMAIN batchVec[n].posted :
                LET blk == chain[batchVec[n].posted[k] + 1]
                    spent == batchVec[n].spentTxOuts_
                IN \A t \in DOMAIN blk.txs : \A x \in DOMAIN blk.txs[t].ins :
                      LET txin == blk.txs[t].ins[x]
                          txinkey == getBlkDataKeyNoPrefix(blk.height, blk.dup, t - 1, x - 1)
                      IN IF InUtxoMap(txin.prevHash, txin.prevIdx)
                            THEN \E j \in DOMAIN spent :
                                    /\ spent[j].parentHash = txin.prevHash
                                    /\ spent[j].txOutIndex = txin.prevIdx
                                    /\ spent[j].spentness = "SPENT"
                                    /\ spent[j].spentByTxInKey = txinkey
                            ELSE \A j \in DOMAIN spent : spent[j].spentByTxInKey # txinkey


\* an input of a block of the heights hs references output o of transaction t of
\* block h (1-based positions in the block's sequences)
SpentWithin(hs, h, t, o) ==
    \E h2 \in hs : \E t2 \in DOMAIN chain[h2 + 1].txs : \E x \in DOMAIN chain[h2 + 1].txs[t2].ins :
        /\ chain[h2 + 1].txs[t2].ins[x].prevHash = chain[h + 1].txs[t].hash
        /\ chain[h2 + 1].txs[t2].ins[x].prevIdx = o - 1

(* C28: for a watched output created and spent in the blocks of one committed batch
   group, the record the STXO sub-db holds under the output's key is the Spent one,
   never the Unspent serialization *)
C28_SpentOverwritesUnspent ==
    \A g \in DOMAIN committed : \A h \in committed[g] :
        \A t \in DOMAIN chain[h + 1].txs : \A o \in DOMAIN chain[h + 1].txs[t].outs :
            LET key == getBlkDataKeyNoPrefix(h, chain[h + 1].dup, t - 1, o - 1)
            IN (/\ chain[h + 1].txs[t].outs[o].scrAddr \in Watched
                /\ SpentWithin(committed[g], h, t, o)
                /\ key \in DOMAIN dbSTXO)
                   => StoredStxo(dbSTXO, key).spentness = "SPENT"


(* C29: a raw block that fails deserialization in a reader thread is not fatal: the
   process keeps running after BlockData::deserialize has thrown *)
C29_DeserErrorNotFatal ==
    deserError # {} => proc = "running"


(* C30: when scan() waits on the writer after a chain move has ended its loop (the
   range_error rethrown at line 127), the writer is alive and on a future with a
   shared state, so that the terminator reaches it and scan() returns *)
C30_ReturnsAfterChainMove ==
    (dpc = "join" /\ chainMove # {}) =>
        /\ proc = "running"
        /\ wpc # "hung"
        /\ (wpc = "get" => batchFuture # {})


\* the hash of the header of the first block of blk00000.dat, the genesis block
GenesisHash == getHash256([i \in 1 .. HEADER_SIZE |-> BlockId(0, 1)])

\* findFirstUnrecognizedBlockHeader has returned, called on the detected files
FindReturned ==
    /\ returned.op = "findFirstUnrecognizedBlockHeader"
    /\ returned.end = "returned"
    /\ returned.fnum = Len(blkFiles_)

\* the call went through the return of line 245: the first read ended with
\* foundAtPosition = (0, 293)
GenesisRuleFired ==
    /\ FirstUnknownFile(disk, blkFiles_, allHeaders) # 0
    /\ \E lib \in SeekgOutcomes :
          LET idx == FirstUnknownFile(disk, blkFiles_, allHeaders)
              r == readHeadersFromFile(BytesOf(disk, idx - 1), blkFiles_[idx], 0, lib,
                                       ThrowsOutside(allHeaders))
          IN /\ r.end \in {"returned", "stopped"}
             /\ LastPos(r.cbs, <<0, 0>>) = <<0, GenesisEnd>>

(* C31: the genesis header, which the store holds before any ingest, does not count
   as ingested: with a store that knows genesis only and blk00000.dat detected,
   findFirstUnrecognizedBlockHeader returns (0, 0); and the return made for this
   reason (line 245) happens only when no header beyond genesis is in the store *)
C31_GenesisNotIngested ==
    FindReturned =>
        /\ (allHeaders = {GenesisHash} /\ Len(blkFiles_) >= 1) => returned.ret = <<0, 0>>
        /\ GenesisRuleFired => allHeaders \subseteq {GenesisHash}


\* the file findFirstUnrecognizedBlockHeader scans first: the last one whose first
\* header is in the store
ScannedFile == FirstUnknownFile(disk, blkFiles_, allHeaders) - 1

\* the call went into the recovery of lines 250-314: the first read did not end at
\* (0, 293) and met no recognized header with the hash of the top block
RecoveryTaken ==
    /\ ScannedFile >= 0
    /\ \E lib \in SeekgOutcomes :
          LET r == readHeadersFromFile(BytesOf(disk, ScannedFile), blkFiles_[ScannedFile + 1],
                                       0, lib, ThrowsOutside(allHeaders))
          IN /\ r.end \in {"returned", "stopped"}
             /\ LastPos(r.cbs, <<0, 0>>) # <<0, GenesisEnd>>
             /\ ~FoundTopBlock(r, topHash)

\* a detected file holds a header with the hash of the top block
TopInFiles ==
    \E n \in 0 .. Len(blkFiles_) - 1 : \E p \in WellFormed(BytesOf(disk, n)) :
        getHash256(BytesAt(BytesOf(disk, n), p + 8, HEADER_SIZE)) = topHash

(* C32: when the top block is not met in the file scanned first, every file is
   searched for it: if no block file holds it the result is (0, 0); if one does, the
   result does not lie behind a header of the scanned file that the store does not
   know *)
C32_RecoverySearchesAllFiles ==
    (FindReturned /\ RecoveryTaken) =>
        IF TopInFiles
          THEN \A q \in UnknownHeaders : q[1] = ScannedFile => ~Before(q, returned.ret)
          ELSE returned.ret = <<0, 0>>

\* the recovery found the top block in a file above the scanned one, no header is
\* missing in the scanned file
C32_TopFoundInLaterFile ==
    /\ FindReturned
    /\ RecoveryTaken
    /\ TopInFiles
    /\ returned.ret # <<0, 0>>


(* C40: getFileAndPosForBlockHash gives the header a position only if a header with
   the same hash was read at that position: a header that no file but the last holds
   does not get the position of another block *)
C40_StampedWhereRead ==
    (/\ returned.op = "getFileAndPosForBlockHash"
     /\ returned.end = "returned"
     /\ returned.hash \in DOMAIN stamped) =>
        \E i \in DOMAIN delivered :
            /\ delivered[i].pos = stamped[returned.hash]
            /\ getHash256(delivered[i].bytes) = returned.hash


\* C33: a header's (file-num, offset) is set once: no call of
\* findFirstUnrecognizedBlockHeader or getFileAndPosForBlockHash gives a header
\* that has a position another position.
C33_PositionSetOnce ==
    [][\A h \in DOMAIN stamped : h \in DOMAIN stamped' /\ stamped'[h] = stamped[h]]_vars


\* the output pass of batch i is over: the terminating link is posted and every
\* block of the link chain has been handed to txoutParser
OutputPassOver(i) ==
    /\ i \in DOMAIN batchVec
    /\ batchVec[i].terminated
    /\ scanned[i] = Len(batchVec[i].posted)

\* C34: no deadlock in the reader throttle: under fair scheduling every reader of a
\* window posts its terminating link and every scan thread comes to the end of its
\* link chain, as long as the process is alive
C34_ThrottleNeverBlocks ==
    \A i \in 1 .. totalThreadCount_ :
        (dpc = "waitUtxos" /\ i \in DOMAIN batchVec)
            ~> (OutputPassOver(i) \/ proc = "aborted")


\* the driver's wait on the doneScanningUtxos_ of batch waitIndex ends in this step:
\* get() returns or throws
DriverWaitEnds ==
    /\ dpc = "waitUtxos"
    /\ waitIndex \in DOMAIN batchVec
    /\ \/ waitIndex' # waitIndex
       \/ dpc' = "unwinding"
       \/ proc' = "aborted"

\* C35: in every interleaving the driver's wait on a batch's doneScanningUtxos_ is a
\* wait on the future scanBlockData installed: the driver does not read it before the
\* assignment, and the wait ends only after the output pass of that batch
C35_DriverObservesInstalledFuture ==
    [][DriverWaitEnds =>
          /\ waitIndex \in flagged
          /\ batchVec[waitIndex].scan # "txout"]_vars


\* the heights of the blocks in the batch groups published so far
PublishedHeights ==
    UNION { UNION { Range(links[l].batchVec_[n].posted) : n \in DOMAIN links[l].batchVec_ }
            : l \in DOMAIN links }

\* the transactions of the blocks published so far
PublishedTxs == UNION { Range(chain[h + 1].txs) : h \in PublishedHeights }

\* the watched outputs of the published blocks, as (tx hash, output index)
PublishedWatched ==
    UNION { { <<tx.hash, y - 1>> : y \in { z \in DOMAIN tx.outs :
                                              tx.outs[z].scrAddr \in Watched } }
            : tx \in PublishedTxs }

\* the outputs the inputs of the published blocks spend
PublishedSpent ==
    UNION { { <<tx.ins[x].prevHash, tx.ins[x].prevIdx>> : x \in DOMAIN tx.ins }
            : tx \in PublishedTxs }

\* the outputs utxoMap_ holds, as (tx hash, output index of the record)
UtxoMapPoints ==
    UNION { { <<h, utxoMap_[h][k].txOutIndex>> : k \in DOMAIN utxoMap_[h] }
            : h \in DOMAIN utxoMap_ }

\* C36: at every batch boundary, accumulateDataBeforeBatchWrite done, utxoMap_ holds
\* exactly the watched outputs scanned so far that no scanned input has spent
C36_UtxoMapIsUnspentSet ==
    (proc = "running" /\ dpc = "loop" /\ links # << >>) => UtxoMapPoints = PublishedWatched \ PublishedSpent


\* the sum of the sizes of the first n entries of blkFiles_
RECURSIVE SizesUpTo(_)
SizesUpTo(n) == IF n = 0 THEN 0 ELSE SizesUpTo(n - 1) + blkFiles_[n].filesize

\* C37: after any sequence of detectAllBlkFiles calls totalBlockchainBytes_ is the sum
\* of filesize over the entries of blkFiles_, and offsetAtStartOfFile(i) of every
\* detected file i is the sum of the sizes of the files 0 .. i-1
C37_TotalsAreSums ==
    /\ totalBlockchainBytes = SizesUpTo(Len(blkFiles_))
    /\ \A i \in 0 .. numBlockFiles - 1 : offsetAtStartOfFile(i) = SizesUpTo(i)

\* a call has measured again a last known file that had grown since the call before,
\* with other files in front of it and behind it
C37_LastFileGrewBetweenCalls ==
    /\ returned.op = "detectAllBlkFiles"
    /\ returned.popped # << >>
    /\ LET was == returned.popped[1]
       IN /\ was.fnum >= 1
          /\ was.fnum + 1 < Len(blkFiles_)
          /\ blkFiles_[was.fnum + 1].filesize > was.filesize


\* C38: readRawBlocks called with startAt.first < numBlockFiles, whatever stopAt is,
\* reads detected files only (no element of blkFiles_ outside [0, numBlockFiles) is
\* accessed) and returns a position in a detected file
C38_ReadsDetectedFilesOnly ==
    (returned.op = "readRawBlocksBetween" /\ returned.startAt[1] < numBlockFiles) =>
        /\ returned.end # "undefined"
        /\ \A i \in DOMAIN delivered : delivered[i].pos[1] < numBlockFiles
        /\ returned.ret[1] \in 0 .. numBlockFiles - 1


\* the offsets o with o + len <= inLen at which bytes occurs in the buffer of the
\* last scanFor call
OccursAt ==
    {o \in 0 .. returned.inLen - Len(returned.bytes) :
        SubSeq(disk[1].bytes, o + 1, o + Len(returned.bytes)) = returned.bytes}

\* C39: scanFor(in, inLen, bytes, len) returns the smallest offset o, o + len <= inLen,
\* at which bytes occurs in the buffer, UINT64_MAX when there is none, and compares no
\* byte at an index >= inLen
C39_ScanForFindsFirstOccurrence ==
    returned.op = "scanFor" =>
        /\ returned.end = "returned"
        /\ returned.ret = IF OccursAt = {} THEN NotFound ELSE Min(OccursAt)
        /\ returned.reach <= returned.inLen

====
